---- MODULE Spec2Model ----
(***************************************************************************)
(* State-machine model of the sequelize-query-builder orchestration core:  *)
(* PaginationBuilder, ValidationUtils, FilterBuilder / FilterProcessor,    *)
(* SortBuilder / SortProcessor, JoinBuilder, CacheManager with the         *)
(* in-memory provider, PerformanceMonitor and AdvancedQueryBuilder.        *)
(*                                                                         *)
(* JavaScript objects are functions whose DOMAIN is the set of keys that   *)
(* are present (a missing key is `undefined`).  An asynchronous method is  *)
(* a sequence of atomic steps, one per stretch of code between two awaits. *)
(***************************************************************************)
EXTENDS Integers, Sequences, FiniteSets, TLC

VARIABLES
  config,          \* BasicQueryBuilder.config (fixed at construction)
  currentOptions,  \* AdvancedQueryBuilder.currentOptions
  joinBuilderJoins,\* JoinBuilder.joins of the orchestrator's joinBuilder
  cache,           \* MemoryCacheProvider.cache : key -> [value, expires]
  heap,            \* result envelopes, addressed by reference
  metrics,         \* PerformanceMonitor.metrics : monitorId -> counters
  ex,              \* the execute()/executeWithCount() calls in flight
  now,             \* Date.now() in milliseconds
  lastBuilder,     \* outcome of the most recent builder call, until the next execution starts
  prev,            \* the execution that completed last, if nothing happened since
  builderLeft,     \* number of builder calls the behaviour may still make
  nExec,           \* number of execute()/executeWithCount() calls made
  pgConfig,        \* PaginationBuilder.config of a stand-alone builder
  pgOptions,       \* the PaginationOptions handed to it
  pgValidation,    \* what validate(pgOptions) returned
  pgOut,           \* what process(pgOptions) returned or raised
  brIn,            \* arguments of buildResult
  brOut,           \* what buildResult returned
  providerFails,   \* the cache provider in use rejects every call (one installed with setProvider)
  gos,             \* the getOrSet calls on the orchestrator's cache manager
  lastOp,          \* the last direct call on the cache manager or its provider, and its result
  subBuilders,     \* FilterBuilder.filters and SortBuilder.sorts of the orchestrator's sub-builders
  monitorings      \* the startMonitoring()..endMonitoring() spans on the orchestrator's monitor

orchVars == <<config, currentOptions, joinBuilderJoins, cache, heap, metrics, ex,
              now, lastBuilder, prev, builderLeft, nExec>>
pagVars == <<pgConfig, pgOptions, pgValidation, pgOut, brIn, brOut>>
auxVars == <<providerFails, gos, lastOp, subBuilders, monitorings>>
vars == <<config, currentOptions, joinBuilderJoins, cache, heap, metrics, ex,
          now, lastBuilder, prev, builderLeft, nExec,
          pgConfig, pgOptions, pgValidation, pgOut, brIn, brOut,
          providerFails, gos, lastOp, subBuilders, monitorings>>

----
\* JavaScript objects

EmptyObj == [k \in {} |-> TRUE]

Has(o, k) == k \in DOMAIN o

Put(o, k, v) == [x \in DOMAIN o \cup {k} |-> IF x = k THEN v ELSE o[x]]

Del(o, ks) == [x \in DOMAIN o \ ks |-> o[x]]

\* `o.k || d` for a numeric field: undefined and 0 are falsy
OrElse(o, k, d) == IF Has(o, k) /\ o[k] # 0 THEN o[k] ELSE d

Min(a, b) == IF a <= b THEN a ELSE b

----
\* Bounds of the model

MaxBuilderCalls == 1
MaxBuilderOnlyCalls == 2
MaxExecCalls == 2
MaxTicks == 2
MaxTotal == 45
MaxGosCalls == 2

\* Program constants

MsPerSec == 1000
DefaultPageSize == 10
DefaultMaxPageSize == 100
JoiMaxPageSize == 1000
ProviderDefaultTTL == 300

----
\* PaginationBuilder

\* constructor(config)
PaginationBuilderConfig(c) ==
  [ defaultPageSize |-> OrElse(c, "defaultPageSize", DefaultPageSize),
    maxPageSize     |-> OrElse(c, "maxPageSize", DefaultMaxPageSize),
    enableOffset    |-> IF Has(c, "enableOffset") THEN c.enableOffset # FALSE ELSE TRUE,
    enableCursor    |-> IF Has(c, "enableCursor") THEN c.enableCursor ELSE FALSE ]

hasPageBased(o) == Has(o, "page") \/ Has(o, "pageSize")

hasOffsetBased(o) == Has(o, "offset") \/ Has(o, "limit")

\* variant: validate without the conflicting-mode rule
ModeErrors_both(o) == <<>>

\* validate, lines 90-96: the conflicting-mode rule
ModeErrors(o) ==
  IF hasPageBased(o) /\ hasOffsetBased(o)
    THEN <<"Cannot use both page-based and offset-based pagination">>
    ELSE <<>>

\* validate(options)
PaginationValidate(cfg, o) ==
  LET ePage == IF Has(o, "page") /\ o.page < 1
                 THEN <<"Page must be a positive integer">> ELSE <<>>
      eSize == IF ~Has(o, "pageSize") THEN <<>>
               ELSE IF o.pageSize < 1 THEN <<"Page size must be a positive integer">>
               ELSE IF o.pageSize > cfg.maxPageSize THEN <<"Page size cannot exceed max">>
               ELSE <<>>
      eOff  == IF Has(o, "offset") /\ o.offset < 0
                 THEN <<"Offset must be a non-negative integer">> ELSE <<>>
      eLim  == IF ~Has(o, "limit") THEN <<>>
               ELSE IF o.limit < 1 THEN <<"Limit must be a positive integer">>
               ELSE IF o.limit > cfg.maxPageSize THEN <<"Limit cannot exceed max">>
               ELSE <<>>
      errors == ePage \o eSize \o eOff \o eLim \o ModeErrors(o)
  IN [isValid |-> Len(errors) = 0, errors |-> errors]

calculateOffset(page, pageSize) == (page - 1) * pageSize

\* variant: Math.floor in place of Math.ceil
calculateTotalPages_floor(total, pageSize) == total \div pageSize

\* Math.ceil(total / pageSize) on integers, pageSize >= 1
calculateTotalPages(total, pageSize) ==
  IF total % pageSize = 0 THEN total \div pageSize ELSE (total \div pageSize) + 1

\* process(options): [ok |-> TRUE, value |-> tuple] or [ok |-> FALSE, error |-> PaginationError]
PaginationProcess(cfg, o) ==
  LET validation == PaginationValidate(cfg, o) IN
  IF ~validation.isValid
    THEN [ok |-> FALSE,
          error |-> [name |-> "PaginationError", code |-> "INVALID_PAGINATION_OPTIONS",
                     errors |-> validation.errors]]
    ELSE
      LET page == OrElse(o, "page", 1)
          pageSize == Min(OrElse(o, "pageSize", cfg.defaultPageSize), cfg.maxPageSize)
      IN IF Has(o, "offset") /\ cfg.enableOffset
           THEN [ok |-> TRUE,
                 value |-> [offset |-> o.offset,
                            limit |-> OrElse(o, "limit", cfg.defaultPageSize),
                            page |-> page, pageSize |-> pageSize]]
           ELSE [ok |-> TRUE,
                 value |-> [offset |-> calculateOffset(page, pageSize),
                            limit |-> pageSize,
                            page |-> page, pageSize |-> pageSize]]

\* buildResult(data, total, page, pageSize)
buildResult(data, total, page, pageSize) ==
  LET totalPages == calculateTotalPages(total, pageSize) IN
  [ data |-> data,
    pagination |-> [ page |-> page, pageSize |-> pageSize, total |-> total,
                     totalPages |-> totalPages,
                     hasNext |-> page < totalPages,
                     hasPrev |-> page > 1 ] ]

----
\* JavaScript values whose type matters to a schema

Str(s) == [t |-> "string", v |-> s]

Num(n) == [t |-> "number", v |-> n]

Ref(name) == [t |-> "ref", v |-> name]

IsString(x) == x.t = "string"

\* Error values: name is Error.name
JoiError(path) ==
  [name |-> "ValidationError", code |-> "VALIDATION_ERROR", field |-> path]

----
\* ValidationUtils

\* defaultSchemas.pagination: paths of the keys that fail, in schema order
JoiPaginationFailures(o) ==
  (IF Has(o, "page") /\ o.page < 1 THEN <<"page">> ELSE <<>>)
  \o (IF Has(o, "pageSize") /\ (o.pageSize < 1 \/ o.pageSize > JoiMaxPageSize)
        THEN <<"pageSize">> ELSE <<>>)
  \o (IF Has(o, "offset") /\ o.offset < 0 THEN <<"offset">> ELSE <<>>)
  \o (IF Has(o, "limit") /\ (o.limit < 1 \/ o.limit > JoiMaxPageSize)
        THEN <<"limit">> ELSE <<>>)

\* validatePagination(options, _config, requestId): _config is not read
validatePagination(o, cfg) ==
  LET failures == JoiPaginationFailures(o) IN
  IF Len(failures) > 0
    THEN [isValid |-> FALSE, error |-> JoiError(Head(failures))]
    ELSE [isValid |-> TRUE, data |-> o]

\* defaultSchemas.filter with unknown(true)
validateFilters(o) ==
  IF Has(o, "search") /\ ~IsString(o.search)
    THEN [isValid |-> FALSE, error |-> JoiError("search")]
  ELSE IF Has(o, "searchFields") /\ \E i \in DOMAIN o.searchFields : ~IsString(o.searchFields[i])
    THEN [isValid |-> FALSE, error |-> JoiError("searchFields")]
  ELSE [isValid |-> TRUE, data |-> o]

SortKeys == {"column", "order", "nulls", "caseSensitive"}

\* defaultSchemas.sort
validateSorting(o) ==
  IF ~Has(o, "column") THEN [isValid |-> FALSE, error |-> JoiError("column")]
  ELSE IF ~Has(o, "order") \/ o.order \notin {"ASC", "DESC"}
    THEN [isValid |-> FALSE, error |-> JoiError("order")]
  ELSE IF Has(o, "nulls") /\ o.nulls \notin {"first", "last"}
    THEN [isValid |-> FALSE, error |-> JoiError("nulls")]
  ELSE IF ~(DOMAIN o \subseteq SortKeys)
    THEN [isValid |-> FALSE, error |-> JoiError("unknown")]
  ELSE [isValid |-> TRUE, data |-> o]

\* Joi.array().items(defaultSchemas.join): model is required, a string or an object
validateJoins(js) ==
  IF \E i \in DOMAIN js : ~Has(js[i], "model")
    THEN [isValid |-> FALSE, error |-> JoiError("model")]
    ELSE [isValid |-> TRUE, data |-> js]

----
\* AdvancedQueryBuilder: the builder methods.  Each returns the specification
\* held after the call and whether the call raised.

Raised(cur, err) == [options |-> cur, raised |-> TRUE, error |-> err]

Returned(new) == [options |-> new, raised |-> FALSE]

\* variant: the assignment made before the validation result is looked at
withPaginationResult_assignFirst(cur, o, cfg) ==
  LET validation == validatePagination(o, cfg) IN
  IF ~validation.isValid THEN Raised(Put(cur, "pagination", o), validation.error)
  ELSE Returned(Put(cur, "pagination", validation.data))

withPaginationResult(cur, o, cfg) ==
  LET validation == validatePagination(o, cfg) IN
  IF ~validation.isValid THEN Raised(cur, validation.error)
  ELSE Returned(Put(cur, "pagination", validation.data))

withFiltersResult(cur, o) ==
  LET validation == validateFilters(o) IN
  IF ~validation.isValid THEN Raised(cur, validation.error)
  ELSE Returned(Put(cur, "filters", validation.data))

withSortingResult(cur, o) ==
  LET validation == validateSorting(o) IN
  IF ~validation.isValid THEN Raised(cur, validation.error)
  ELSE Returned(Put(cur, "sorting", <<validation.data>>))

withSortingsResult(cur, sorts) ==
  LET validations == [i \in DOMAIN sorts |-> validateSorting(sorts[i])]
      errors == SelectSeq(validations, LAMBDA v : ~v.isValid)
  IN IF Len(errors) > 0 THEN Raised(cur, errors[1].error)
     ELSE Returned(Put(cur, "sorting", [i \in DOMAIN sorts |-> validations[i].data]))

withJoinsResult(cur, joins) ==
  LET validation == validateJoins(joins) IN
  IF ~validation.isValid THEN Raised(cur, validation.error)
  ELSE Returned(Put(cur, "joins", validation.data))

----
\* FilterProcessor

Arr(seq) == [t |-> "array", v |-> seq]

IsArray(x) == x.t = "array"

Pattern(pre, x, post) == [t |-> "pattern", pre |-> pre, v |-> x.v, post |-> post]

Pred(field, op, value) == [field |-> field, op |-> op, value |-> value]

Operators == {"eq", "ne", "gt", "gte", "lt", "lte", "like", "notLike", "iLike", "notILike",
              "in", "notIn", "between", "notBetween", "is", "isNot",
              "startsWith", "endsWith", "contains", "regexp", "notRegexp"}

\* processOperator(field, operator, value, _caseSensitive); the default case throws
processOperator(field, operator, value) ==
  LET range == IF IsArray(value) /\ Len(value.v) = 2 THEN value ELSE Arr(<<value, value>>)
      list  == IF IsArray(value) THEN value ELSE Arr(<<value>>)
  IN CASE operator = "eq"         -> [kind |-> "ok", where |-> Pred(field, "eq", value)]
       [] operator \in {"ne", "gt", "gte", "lt", "lte", "notLike", "iLike", "notILike",
                        "is", "regexp", "notRegexp"}
                                  -> [kind |-> "ok", where |-> Pred(field, operator, value)]
       [] operator = "like"       -> [kind |-> "ok", where |-> Pred(field, "iLike", value)]
       [] operator = "isNot"      -> [kind |-> "ok", where |-> Pred(field, "not", value)]
       [] operator \in {"in", "notIn"}
                                  -> [kind |-> "ok", where |-> Pred(field, operator, list)]
       [] operator \in {"between", "notBetween"}
                                  -> [kind |-> "ok", where |-> Pred(field, operator, range)]
       [] operator = "startsWith" -> [kind |-> "ok",
                                      where |-> Pred(field, "iLike", Pattern("", value, "%"))]
       [] operator = "endsWith"   -> [kind |-> "ok",
                                      where |-> Pred(field, "iLike", Pattern("%", value, ""))]
       [] operator = "contains"   -> [kind |-> "ok",
                                      where |-> Pred(field, "iLike", Pattern("%", value, "%"))]
       [] OTHER                   -> [kind |-> "throw", operator |-> operator]

\* FilterProcessor.validateCondition
filterConditionValid(c) ==
  /\ Has(c, "field") /\ c.field # ""
  /\ Has(c, "operator") /\ c.operator # ""
  /\ (~Has(c, "value") \/ c.value.t = "null") => c.operator \in {"is", "isNot"}

\* processFilterCondition with the default (empty) schema
processFilterCondition(c) ==
  IF ~filterConditionValid(c)
    THEN [kind |-> "error", where |-> EmptyObj]
    ELSE processOperator(c.field, c.operator, IF Has(c, "value") THEN c.value ELSE [t |-> "null"])

\* process(filters) for a list of conditions: processFilterArray under the
\* try/catch, whose catch block turns what processOperator throws into a result,
\* so that process itself never raises
FilterProcess(conditions) ==
  LET results == [i \in DOMAIN conditions |-> processFilterCondition(conditions[i])]
      thrown  == {i \in DOMAIN conditions : results[i].kind = "throw"}
      first   == CHOOSE i \in thrown : \A j \in thrown : i <= j
      soft(n) == SelectSeq([i \in 1..n |-> IF results[i].kind = "error"
                                              THEN "Invalid filter condition" ELSE ""],
                           LAMBDA m : m # "")
  IN IF thrown # {}
       THEN [where |-> EmptyObj,
             errors |-> Append(soft(first - 1), "Filter processing error: Unsupported operator"),
             raised |-> FALSE]
       ELSE [where |-> [and |-> [i \in DOMAIN conditions |-> results[i].where]],
             errors |-> soft(Len(conditions)),
             raised |-> FALSE]

\* Object.entries order of the keys other than search / searchFields
FilterFieldOrder == <<"status", "role">>

\* FilterBuilder.processFromOptions(options)
FilterProcessFromOptions(o) ==
  LET searchPart ==
        IF Has(o, "search") /\ o.search.v # "" /\ Has(o, "searchFields")
          THEN << [field |-> "__search__", operator |-> "or",
                   value |-> Arr([i \in DOMAIN o.searchFields |->
                                    [field |-> o.searchFields[i].v, operator |-> "contains",
                                     value |-> o.search, caseSensitive |-> FALSE]])] >>
          ELSE <<>>
      keys == SelectSeq(FilterFieldOrder, LAMBDA k : Has(o, k) /\ o[k].t # "null")
      rest == [i \in DOMAIN keys |-> [field |-> keys[i], operator |-> "eq", value |-> o[keys[i]]]]
  IN FilterProcess(searchPart \o rest)

----
\* SortProcessor / SortBuilder

\* SortProcessor.validateCondition
sortConditionValid(c) ==
  /\ Has(c, "column") /\ c.column # ""
  /\ Has(c, "order") => c.order \in {"ASC", "DESC"}
  /\ Has(c, "nulls") => c.nulls \in {"first", "last"}

\* processSortCondition with the default (empty) schema; this.sequelize is never
\* injected, so the case-insensitive branch dereferences undefined
processSortCondition(c) ==
  IF ~sortConditionValid(c) THEN [kind |-> "error"]
  ELSE IF Has(c, "caseSensitive") /\ c.caseSensitive = FALSE THEN [kind |-> "throw"]
  ELSE LET order == IF Has(c, "order") THEN c.order ELSE "ASC"
           expr  == IF Has(c, "nulls")
                      THEN [column |-> c.column, nulls |-> c.nulls]
                      ELSE [column |-> c.column]
       IN [kind |-> "ok", order |-> [expr |-> expr, order |-> order]]

\* SortProcessor.process(sorts) for a list
SortProcess(conditions) ==
  LET results == [i \in DOMAIN conditions |-> processSortCondition(conditions[i])]
      thrown  == \E i \in DOMAIN conditions : results[i].kind = "throw"
      good    == SelectSeq(results, LAMBDA r : r.kind = "ok")
      bad     == SelectSeq(results, LAMBDA r : r.kind = "error")
  IN IF thrown
       THEN [order |-> <<>>, errors |-> <<"Sort processing error">>]
       ELSE [order |-> [i \in DOMAIN good |-> good[i].order],
             errors |-> [i \in DOMAIN bad |-> "Invalid sort condition"]]

\* SortBuilder.processFromOptions(options)
SortProcessFromOptions(o) ==
  IF Has(o, "column") /\ Has(o, "order")
    THEN SortProcess(<< [k \in DOMAIN o \cap {"column", "order", "nulls", "caseSensitive"}
                           |-> o[k]] >>)
    ELSE SortProcess(<<>>)

----
\* JoinBuilder

\* validateJoin
joinValid(j) == Has(j, "model")

\* addJoins(joins): forEach addJoin, which validates and then pushes
addJoins(held, joins) ==
  LET invalid == {i \in DOMAIN joins : ~joinValid(joins[i])}
      first   == CHOOSE i \in invalid : \A j \in invalid : i <= j
  IN IF invalid = {}
       THEN [ok |-> TRUE, joins |-> held \o joins]
       ELSE [ok |-> FALSE, joins |-> held \o SubSeq(joins, 1, first - 1),
             error |-> [name |-> "QueryError", code |-> "INVALID_JOIN_MODEL"]]

IncludeKeys == {"model", "required", "attributes", "where", "as", "include"}

\* build(): one inclusion node per held join
JoinBuild(held) ==
  [i \in DOMAIN held |-> [k \in DOMAIN held[i] \cap IncludeKeys |-> held[i][k]]]

----
\* AdvancedQueryBuilder.buildQueryOptions

ModelName == "User"

RequestId == "req_1"

Merge(a, b) == [k \in DOMAIN a \cup DOMAIN b |-> IF k \in DOMAIN b THEN b[k] ELSE a[k]]

PassThroughKeys == {"attributes", "group", "having", "distinct", "subQuery", "benchmark", "logging"}

\* buildQueryOptions(): the plan, or the error it throws, and the joins the
\* orchestrator's JoinBuilder holds afterwards
buildQueryOptions(cur, pbConfig, held) ==
  LET pag  == IF Has(cur, "pagination") THEN PaginationProcess(pbConfig, cur.pagination)
              ELSE [ok |-> TRUE]
      o1   == IF Has(cur, "pagination") /\ pag.ok
                THEN [offset |-> pag.value.offset, limit |-> pag.value.limit]
                ELSE EmptyObj
      filt == IF Has(cur, "filters") THEN FilterProcessFromOptions(cur.filters)
              ELSE [where |-> EmptyObj, errors |-> <<>>]
      o2   == IF Has(cur, "filters") THEN Put(o1, "where", filt.where) ELSE o1
      srt  == IF Has(cur, "sorting") /\ Len(cur.sorting) > 0
                THEN SortProcessFromOptions(cur.sorting[1])
                ELSE [order |-> <<>>, errors |-> <<>>]
      o3   == IF Has(cur, "sorting") THEN Put(o2, "order", srt.order) ELSE o2
      jn   == IF Has(cur, "joins") THEN addJoins(held, cur.joins)
              ELSE [ok |-> TRUE, joins |-> held]
      o4   == IF Has(cur, "joins") THEN Put(o3, "include", JoinBuild(jn.joins)) ELSE o3
      o5   == Merge(o4, [k \in DOMAIN cur \cap PassThroughKeys |-> cur[k]])
      o6   == IF Has(cur, "where")
                THEN Put(o5, "where", Merge(IF Has(o5, "where") THEN o5.where ELSE EmptyObj,
                                            cur.where))
                ELSE o5
  IN IF ~pag.ok
       THEN [ok |-> FALSE, joins |-> held, error |-> pag.error]
     ELSE IF Len(filt.errors) > 0
       THEN [ok |-> FALSE, joins |-> held,
             error |-> [name |-> "ValidationError", code |-> "FILTER_PROCESSING_ERROR"]]
     ELSE IF Has(cur, "sorting") /\ Len(cur.sorting) = 0
       THEN [ok |-> FALSE, joins |-> held, error |-> [name |-> "TypeError", code |-> ""]]
     ELSE IF Len(srt.errors) > 0
       THEN [ok |-> FALSE, joins |-> held,
             error |-> [name |-> "ValidationError", code |-> "SORT_PROCESSING_ERROR"]]
     ELSE IF ~jn.ok
       THEN [ok |-> FALSE, joins |-> jn.joins, error |-> jn.error]
     ELSE [ok |-> TRUE, joins |-> jn.joins, options |-> o6]

\* getTotalCount: the plan handed to count()
countOptions(queryOptions) == Del(queryOptions, {"offset", "limit", "order", "attributes"})

----
\* CacheManager and MemoryCacheProvider

Null == 0

KeyPrefix == "sqb:"

\* JSON.stringify of one join: a model given as a Sequelize model class is a
\* function-valued property and is left out
StringifyJoin(j) == [k \in {x \in DOMAIN j : ~(x = "model" /\ j[x].t = "ref")} |-> j[k]]

\* { [Op.op]: v }: an object whose one key is an operator symbol
OpValue(op, v) == [t |-> "op", op |-> op, v |-> v]

\* JSON.stringify of a raw where clause: symbol-keyed properties are left out,
\* so an object keyed by an operator symbol is written as {}
StringifyWhere(w) == [f \in DOMAIN w |-> IF w[f].t = "op" THEN EmptyObj ELSE w[f]]

\* JSON.stringify(currentOptions); the order of the keys is not modelled
Stringify(cur) ==
  [k \in DOMAIN cur |->
     IF k = "joins" THEN [i \in DOMAIN cur.joins |-> StringifyJoin(cur.joins[i])]
     ELSE IF k = "where" THEN StringifyWhere(cur.where)
     ELSE cur[k]]

\* CacheManager.generateKey(prefix, ...parts): the parts joined by ':'
generateKey(prefix, parts) == <<prefix>> \o parts

\* AdvancedQueryBuilder.generateCacheKey(suffix)
generateCacheKey(cur, suffix) == generateKey("query", <<ModelName, Stringify(cur), suffix>>)

\* variant: an entry counts as expired at its expiry instant already
ProviderGet_strict(c, key, t) ==
  IF ~Has(c, key) THEN [cache |-> c, value |-> Null]
  ELSE IF t >= c[key].expires THEN [cache |-> Del(c, {key}), value |-> Null]
  ELSE [cache |-> c, value |-> c[key].value]

\* MemoryCacheProvider.get(key) at time t
ProviderGet(c, key, t) ==
  IF ~Has(c, key) THEN [cache |-> c, value |-> Null]
  ELSE IF t > c[key].expires THEN [cache |-> Del(c, {key}), value |-> Null]
  ELSE [cache |-> c, value |-> c[key].value]

\* variant: an entry already in the map is not overwritten
ProviderSet_keepFirst(c, key, value, ttl, t) ==
  LET seconds == IF ttl = 0 THEN ProviderDefaultTTL ELSE ttl
  IN IF Has(c, key) THEN c
     ELSE Put(c, key, [value |-> value, expires |-> t + seconds * MsPerSec])

\* MemoryCacheProvider.set(key, value, ttl) at time t
ProviderSet(c, key, value, ttl, t) ==
  LET seconds == IF ttl = 0 THEN ProviderDefaultTTL ELSE ttl
  IN Put(c, key, [value |-> value, expires |-> t + seconds * MsPerSec])

\* variant: has(key) is the map's own has, with no look at the expiry
ProviderHas_noExpiry(c, key, t) == [cache |-> c, value |-> Has(c, key)]

\* MemoryCacheProvider.has(key) at time t
ProviderHas(c, key, t) ==
  IF ~Has(c, key) THEN [cache |-> c, value |-> FALSE]
  ELSE IF t > c[key].expires THEN [cache |-> Del(c, {key}), value |-> FALSE]
  ELSE [cache |-> c, value |-> TRUE]

\* MemoryCacheProvider.del(key)
ProviderDel(c, key) == Del(c, {key})

\* MemoryCacheProvider.clear()
ProviderClear(c) == EmptyObj

\* MemoryCacheProvider.cleanup() at time t
ProviderCleanup(c, t) == Del(c, {k \in DOMAIN c : t > c[k].expires})

\* variant: a rejection of the provider's get is not caught
CacheManagerGet_nocatch(enabled, c, key, t) ==
  IF ~enabled THEN [cache |-> c, value |-> Null, raised |-> FALSE]
  ELSE IF providerFails THEN [cache |-> c, value |-> Null, raised |-> TRUE]
  ELSE LET g == ProviderGet(c, <<KeyPrefix>> \o key, t)
       IN [cache |-> g.cache, value |-> g.value, raised |-> FALSE]

\* CacheManager.get(key): a rejection of the provider is caught and read as a miss
CacheManagerGet(enabled, c, key, t) ==
  IF ~enabled THEN [cache |-> c, value |-> Null, raised |-> FALSE]
  ELSE IF providerFails THEN [cache |-> c, value |-> Null, raised |-> FALSE]
  ELSE LET g == ProviderGet(c, <<KeyPrefix>> \o key, t)
       IN [cache |-> g.cache, value |-> g.value, raised |-> FALSE]

\* CacheManager.set(key, value): a rejection of the provider is caught
CacheManagerSet(enabled, c, key, value, ttl, t) ==
  IF ~enabled \/ providerFails THEN c
  ELSE ProviderSet(c, <<KeyPrefix>> \o key, value, ttl, t)

\* CacheManager.has(key)
CacheManagerHas(enabled, c, key, t) ==
  IF ~enabled \/ providerFails THEN [cache |-> c, value |-> FALSE]
  ELSE ProviderHas(c, <<KeyPrefix>> \o key, t)

\* CacheManager.del(key)
CacheManagerDel(enabled, c, key) ==
  IF ~enabled \/ providerFails THEN c ELSE ProviderDel(c, <<KeyPrefix>> \o key)

\* CacheManager.clear()
CacheManagerClear(enabled, c) ==
  IF ~enabled \/ providerFails THEN c ELSE ProviderClear(c)

----
\* PerformanceMonitor

NoMonitor == <<>>

ZeroMetrics ==
  [queryExecutionTime |-> 0, totalExecutionTime |-> 0, memoryUsage |-> 0,
   queryCount |-> 0, cacheHits |-> 0, cacheMisses |-> 0]

generateMonitorId(method, t) == <<method, ModelName, RequestId, t>>

\* startMonitoring(context) at time t: the handle and the live map afterwards
startMonitoring(m, enabled, method, t) ==
  IF ~enabled THEN [id |-> NoMonitor, metrics |-> m]
  ELSE [id |-> generateMonitorId(method, t),
        metrics |-> Put(m, generateMonitorId(method, t), ZeroMetrics)]

\* endMonitoring(monitorId) at time t: the metrics returned (EmptyObj for null)
\* and the live map afterwards
endMonitoring(m, enabled, id, t) ==
  IF ~enabled \/ id = NoMonitor \/ ~Has(m, id) THEN [result |-> EmptyObj, metrics |-> m]
  ELSE LET endTime == t IN
       [result |-> [m[id] EXCEPT !.totalExecutionTime = endTime - t],
        metrics |-> Del(m, {id})]

recordQueryExecution(m, enabled, id, executionTime) ==
  IF ~enabled \/ id = NoMonitor \/ ~Has(m, id) THEN m
  ELSE [m EXCEPT ![id].queryExecutionTime = @ + executionTime, ![id].queryCount = @ + 1]

recordCacheHit(m, enabled, id) ==
  IF ~enabled \/ id = NoMonitor \/ ~Has(m, id) THEN m
  ELSE [m EXCEPT ![id].cacheHits = @ + 1]

\* QueryError.fromError(error, code, requestId)
QueryErrorFromError(error, code) ==
  [name |-> "QueryError", code |-> code, originalError |-> error.name]

----
\* Inputs

InputPaginations ==
  { [page |-> 2, pageSize |-> 20],
    [offset |-> 0, limit |-> 20],
    [page |-> 1, pageSize |-> 500],
    [page |-> 2, limit |-> 20],
    [pageSize |-> 1001] }

InputFilters ==
  { [status |-> Str("active")],
    [search |-> Str("john"), searchFields |-> <<Str("name"), Str("email")>>],
    [search |-> Num(42)] }

SortCreated == [column |-> "createdAt", order |-> "DESC"]

SortName == [column |-> "name", order |-> "ASC"]

SortNameFolded == [column |-> "name", order |-> "ASC", caseSensitive |-> FALSE]

SortLower == [column |-> "name", order |-> "asc"]

InputSorts == {SortCreated, SortNameFolded, SortLower}

InputSortLists == { <<>>, <<SortCreated, SortName>>, <<SortCreated, SortLower>> }

InputJoins ==
  { << [model |-> Str("Post")] >>,
    << [model |-> Ref("Profile")], [model |-> Str("Tag"), as |-> "tags"] >>,
    << [as |-> "posts"] >> }

Totals == {45}

Configs ==
  { [defaultPageSize |-> DefaultPageSize, maxPageSize |-> DefaultMaxPageSize,
     enableCaching |-> c, cacheTTL |-> 1, enablePerformanceMonitoring |-> m]
      : c \in BOOLEAN, m \in BOOLEAN }

----
\* State of the orchestrator

\* the slots for execute() / executeWithCount() calls in flight
Execs == {1}

NoPrev == [valid |-> FALSE, method |-> "", expires |-> -1]

NoBuilder ==
  [method |-> "", raised |-> FALSE, input |-> EmptyObj, error |-> EmptyObj, before |-> EmptyObj]

IdleExec ==
  [pc |-> "idle", method |-> "", monitorId |-> NoMonitor, cacheKey |-> <<>>, cached |-> Null,
   build |-> EmptyObj, startTime |-> 0, executionTime |-> 0, page |-> EmptyObj,
   rows |-> EmptyObj, final |-> Null, log |-> <<>>, outcome |-> "none", ret |-> Null,
   error |-> EmptyObj, cause |-> "", cacheRaised |-> FALSE, repeat |-> FALSE, clean |-> TRUE,
   compileFailed |-> FALSE]

InFlight(e) == ex[e].pc \notin {"idle", "done"}

\* the orchestrator's PaginationBuilder is constructed from this.config
pbConfig == PaginationBuilderConfig(config)

InitOrch ==
  /\ config \in Configs
  /\ currentOptions = EmptyObj
  /\ joinBuilderJoins = <<>>
  /\ cache = EmptyObj
  /\ heap = EmptyObj
  /\ metrics = EmptyObj
  /\ ex = [e \in Execs |-> IdleExec]
  /\ now = 0
  /\ lastBuilder = NoBuilder
  /\ prev = NoPrev
  /\ nExec = 0

InitPagIdle ==
  /\ pgConfig = PaginationBuilderConfig(EmptyObj)
  /\ pgOptions = EmptyObj
  /\ pgValidation = EmptyObj
  /\ pgOut = EmptyObj
  /\ brIn = EmptyObj
  /\ brOut = EmptyObj

\* a getOrSet call that has not been made
IdleGos ==
  [pc |-> "idle", n |-> 0, callAt |-> 0, value |-> Null, missed |-> FALSE, factory |-> 0,
   setAt |-> -1, outcome |-> "none", ret |-> Null, concurrent |-> FALSE]

GosSlots == {1, 2}

\* a span of monitoring that has not started: id is the handle startMonitoring
\* returned, recorded the number of recordQueryExecution calls made with it,
\* result what endMonitoring returned (EmptyObj for null)
IdleMonitoring ==
  [pc |-> "idle", method |-> "", id |-> NoMonitor, recorded |-> 0, result |-> EmptyObj]

MonitorSlots == {1, 2}

NoOp ==
  [op |-> "", key |-> <<>>, ttl |-> 0, result |-> Null, raised |-> FALSE,
   before |-> EmptyObj, at |-> 0]

\* sub-builders that hold no condition; resetAt is the number of executions
\* made before the last reset() (-1: no reset yet); built is what the last
\* FilterBuilder.build() returned and the conditions it was called on
NoSubBuilders == [filters |-> <<>>, sorts |-> <<>>, resetAt |-> -1, built |-> EmptyObj]

InitAuxIdle ==
  /\ gos = [calls |-> [s \in GosSlots |-> IdleGos], made |-> 0, lastWritten |-> Null]
  /\ lastOp = NoOp
  /\ subBuilders = NoSubBuilders
  /\ monitorings = [s \in MonitorSlots |-> IdleMonitoring]

InitAux ==
  /\ providerFails = FALSE
  /\ InitAuxIdle

Init == InitOrch /\ InitPagIdle /\ InitAux /\ builderLeft = MaxBuilderCalls

\* the builder methods alone, called more often
InitBuilders == InitOrch /\ InitPagIdle /\ InitAux /\ builderLeft = MaxBuilderOnlyCalls

----
\* Builder calls

\* a builder call with outcome r; an execution it interleaves with is no
\* longer one of two calls in a row
BuilderCall(method, input, r) ==
  /\ builderLeft > 0
  /\ builderLeft' = builderLeft - 1
  /\ currentOptions' = r.options
  /\ lastBuilder' = [method |-> method, raised |-> r.raised, input |-> input,
                     error |-> IF r.raised THEN r.error ELSE EmptyObj,
                     before |-> currentOptions]
  /\ prev' = NoPrev
  /\ ex' = [e \in Execs |-> [ex[e] EXCEPT !.clean = FALSE]]
  /\ UNCHANGED <<config, joinBuilderJoins, cache, heap, metrics, now, nExec>>
  /\ UNCHANGED <<pagVars, auxVars>>

withPagination ==
  \E o \in InputPaginations :
    BuilderCall("withPagination", o, withPaginationResult(currentOptions, o, config))

withFilters ==
  \E o \in InputFilters :
    BuilderCall("withFilters", o, withFiltersResult(currentOptions, o))

withSorting ==
  \E o \in InputSorts :
    BuilderCall("withSorting", o, withSortingResult(currentOptions, o))

withSortings ==
  \E sorts \in InputSortLists :
    BuilderCall("withSortings", sorts, withSortingsResult(currentOptions, sorts))

withJoins ==
  \E joins \in InputJoins :
    BuilderCall("withJoins", joins, withJoinsResult(currentOptions, joins))

\* a second passes.  The cache provider and the compilers do no I/O: their
\* promises are resolved by the time they are awaited and the continuation runs
\* in the same turn of the event loop, so time passes only while an execution
\* waits for the record store or between calls
Tick ==
  /\ now < MaxTicks * MsPerSec
  /\ \A e \in Execs : ex[e].pc \in {"idle", "done", "findWait", "countWait"}
  /\ now' = now + MsPerSec
  /\ UNCHANGED <<config, currentOptions, joinBuilderJoins, cache, heap, metrics, ex,
                 lastBuilder, prev, builderLeft, nExec>>
  /\ UNCHANGED <<pagVars, auxVars>>

----
\* AdvancedQueryBuilder.execute() and executeWithCount(), one action per
\* stretch of code between two awaits

Suffix(method) == IF method = "findAll" THEN "" ELSE "count"

ErrorCode(method) ==
  IF method = "findAll" THEN "ADVANCED_QUERY_ERROR" ELSE "ADVANCED_QUERY_COUNT_ERROR"

Others(e) == \E f \in Execs : f # e /\ InFlight(f)

\* what `prev` becomes when the call in slot e returns with cache c
PrevAfter(e, rec, c) ==
  IF rec.clean /\ ~Others(e)
    THEN [valid |-> TRUE, method |-> rec.method,
          expires |-> IF Has(c, <<KeyPrefix>> \o rec.cacheKey)
                        THEN c[<<KeyPrefix>> \o rec.cacheKey].expires ELSE -1]
    ELSE NoPrev

\* variant: a catch block that does not end monitoring
CatchBlock_noEnd(e, rec, m, error) ==
  /\ metrics' = m
  /\ ex' = [ex EXCEPT ![e] = [rec EXCEPT !.pc = "done", !.outcome = "raised",
                                         !.cause = error.name,
                                         !.error = QueryErrorFromError(error, ErrorCode(rec.method))]]
  /\ prev' = NoPrev

\* the catch block: endMonitoring, then throw QueryError.fromError
CatchBlock(e, rec, m, error) ==
  /\ metrics' = endMonitoring(m, config.enablePerformanceMonitoring, rec.monitorId, now).metrics
  /\ ex' = [ex EXCEPT ![e] = [rec EXCEPT !.pc = "done", !.outcome = "raised",
                                         !.cause = error.name,
                                         !.error = QueryErrorFromError(error, ErrorCode(rec.method))]]
  /\ prev' = NoPrev

\* the performance block of the envelope built from the metrics endMonitoring returned
PerformanceOf(result) ==
  [executionTime |-> result.totalExecutionTime, queryCount |-> result.queryCount,
   cacheHit |-> FALSE]

\* a reference no live envelope has
NewRef == CHOOSE r \in 1..(Cardinality(DOMAIN heap) + 1) : ~Has(heap, r)

\* the envelopes still referenced once slot e is reused: those the cache holds
\* and those another call holds
Live(e) ==
  {cache[k].value : k \in DOMAIN cache}
    \cup {ex[f].final : f \in Execs \ {e}} \cup {ex[f].ret : f \in Execs \ {e}}
    \cup {ex[f].cached : f \in Execs \ {e}}

\* lines 470-485 / 537-552: cache the envelope, end monitoring, attach, return
StoreEnvelope(e, rec, m, envelope) ==
  LET ref == NewRef IN
  IF config.enableCaching
    THEN /\ heap' = Put(heap, ref, envelope)
         /\ cache' = CacheManagerSet(TRUE, cache, rec.cacheKey, ref, config.cacheTTL, now)
         /\ metrics' = m
         /\ ex' = [ex EXCEPT ![e] = [rec EXCEPT !.pc = "setWait", !.final = ref]]
         /\ prev' = prev
    ELSE LET end == endMonitoring(m, config.enablePerformanceMonitoring, rec.monitorId, now) IN
         /\ heap' = Put(heap, ref, IF end.result # EmptyObj
                                     THEN Put(envelope, "performance", PerformanceOf(end.result))
                                     ELSE envelope)
         /\ cache' = cache
         /\ metrics' = end.metrics
         /\ ex' = [ex EXCEPT ![e] = [rec EXCEPT !.pc = "done", !.outcome = "returned",
                                               !.final = ref, !.ret = ref]]
         /\ prev' = PrevAfter(e, rec, cache)

\* variant: compilation starts without the cache lookup
ExecCall_compileFirst(e, method) ==
  LET mon == startMonitoring(metrics, config.enablePerformanceMonitoring, method, now)
      key == generateCacheKey(currentOptions, Suffix(method))
      got == CacheManagerGet(config.enableCaching, cache, key, now)
      b   == buildQueryOptions(currentOptions, pbConfig, joinBuilderJoins)
      rec == [IdleExec EXCEPT !.method = method, !.monitorId = mon.id, !.cacheKey = key,
                              !.clean = ~Others(e),
                              !.repeat = /\ config.enableCaching
                                         /\ prev.valid /\ prev.method = method
                                         /\ now <= prev.expires]
  IN /\ ~InFlight(e)
     /\ nExec < MaxExecCalls
     /\ nExec' = nExec + 1
     /\ metrics' = mon.metrics
     /\ prev' = NoPrev
     /\ IF config.enableCaching
          THEN /\ cache' = cache
               /\ joinBuilderJoins' = b.joins
               /\ ex' = [f \in Execs |->
                           IF f = e THEN [rec EXCEPT !.pc = "buildWait", !.build = b,
                                                     !.log = <<"build">>]
                           ELSE [ex[f] EXCEPT !.clean = FALSE]]
          ELSE /\ cache' = cache
               /\ joinBuilderJoins' = b.joins
               /\ ex' = [f \in Execs |->
                           IF f = e THEN [rec EXCEPT !.pc = "buildWait", !.build = b,
                                                     !.log = <<"build">>]
                           ELSE [ex[f] EXCEPT !.clean = FALSE]]
     /\ lastBuilder' = NoBuilder
     /\ heap' = [r \in DOMAIN heap \cap Live(e) |-> heap[r]]
     /\ UNCHANGED <<config, currentOptions, now, builderLeft>>
     /\ UNCHANGED <<pagVars, auxVars>>

\* lines 416-439: start monitoring, compute the key, look the cache up or compile
ExecCall(e, method) ==
  LET mon == startMonitoring(metrics, config.enablePerformanceMonitoring, method, now)
      key == generateCacheKey(currentOptions, Suffix(method))
      got == CacheManagerGet(config.enableCaching, cache, key, now)
      b   == buildQueryOptions(currentOptions, pbConfig, joinBuilderJoins)
      rec == [IdleExec EXCEPT !.method = method, !.monitorId = mon.id, !.cacheKey = key,
                              !.clean = ~Others(e),
                              !.repeat = /\ config.enableCaching
                                         /\ prev.valid /\ prev.method = method
                                         /\ now <= prev.expires]
  IN /\ ~InFlight(e)
     /\ nExec < MaxExecCalls
     /\ nExec' = nExec + 1
     /\ metrics' = mon.metrics
     /\ prev' = NoPrev
     /\ IF config.enableCaching
          THEN /\ cache' = got.cache
               /\ joinBuilderJoins' = joinBuilderJoins
               /\ ex' = [f \in Execs |->
                           IF f = e THEN [rec EXCEPT !.pc = "cacheWait", !.cached = got.value,
                                                     !.cacheRaised = got.raised,
                                                     !.log = <<"cacheGet">>]
                           ELSE [ex[f] EXCEPT !.clean = FALSE]]
          ELSE /\ cache' = cache
               /\ joinBuilderJoins' = b.joins
               /\ ex' = [f \in Execs |->
                           IF f = e THEN [rec EXCEPT !.pc = "buildWait", !.build = b,
                                                     !.log = <<"build">>]
                           ELSE [ex[f] EXCEPT !.clean = FALSE]]
     /\ lastBuilder' = NoBuilder
     /\ heap' = [r \in DOMAIN heap \cap Live(e) |-> heap[r]]
     /\ UNCHANGED <<config, currentOptions, now, builderLeft>>
     /\ UNCHANGED <<pagVars, auxVars>>

Execute == \E e \in Execs : ExecCall(e, "findAll")

ExecuteWithCount == \E e \in Execs : ExecCall(e, "findAndCountAll")

\* lines 432-439: the cache lookup has resolved
AfterCacheStep(e) ==
  LET rec == ex[e]
      b   == buildQueryOptions(currentOptions, pbConfig, joinBuilderJoins)
  IN /\ rec.pc = "cacheWait"
     /\ IF rec.cacheRaised
          THEN /\ CatchBlock(e, rec, metrics, [name |-> "CacheProviderError"])
               /\ joinBuilderJoins' = joinBuilderJoins
        ELSE IF rec.cached # Null
          THEN /\ metrics' = recordCacheHit(metrics, config.enablePerformanceMonitoring,
                                            rec.monitorId)
               /\ ex' = [ex EXCEPT ![e] = [rec EXCEPT !.pc = "done", !.outcome = "returned",
                                                     !.ret = rec.cached]]
               /\ prev' = PrevAfter(e, rec, cache)
               /\ joinBuilderJoins' = joinBuilderJoins
          ELSE /\ metrics' = metrics
               /\ ex' = [ex EXCEPT ![e] = [rec EXCEPT !.pc = "buildWait", !.build = b,
                                                     !.log = Append(@, "build")]]
               /\ prev' = prev
               /\ joinBuilderJoins' = b.joins
     /\ UNCHANGED <<config, currentOptions, cache, heap, now, lastBuilder, builderLeft, nExec>>
     /\ UNCHANGED <<pagVars, auxVars>>

AfterCache == \E e \in Execs : AfterCacheStep(e)

\* the record-store method execute() / executeWithCount() delegates to
StoreMethod(method) == method

\* variant: the record store is called whether or not compilation succeeded
AfterBuildStep_callFirst(e) ==
  LET rec == [ex[e] EXCEPT !.log = Append(@, StoreMethod(ex[e].method))] IN
  /\ rec.pc = "buildWait"
  /\ IF ~rec.build.ok
       THEN CatchBlock(e, [rec EXCEPT !.compileFailed = TRUE], metrics, rec.build.error)
       ELSE /\ ex' = [ex EXCEPT ![e] = [rec EXCEPT !.pc = "findWait", !.startTime = now]]
            /\ UNCHANGED <<metrics, prev>>
  /\ UNCHANGED <<config, currentOptions, joinBuilderJoins, cache, heap, now, lastBuilder,
                 builderLeft, nExec>>
  /\ UNCHANGED <<pagVars, auxVars>>

\* lines 439-443: compilation has resolved; on success the plan goes to the record store
AfterBuildStep(e) ==
  LET rec == ex[e] IN
  /\ rec.pc = "buildWait"
  /\ IF ~rec.build.ok
       THEN CatchBlock(e, [rec EXCEPT !.compileFailed = TRUE], metrics, rec.build.error)
       ELSE /\ ex' = [ex EXCEPT ![e] = [rec EXCEPT !.pc = "findWait", !.startTime = now,
                                                  !.log = Append(@, StoreMethod(rec.method))]]
            /\ UNCHANGED <<metrics, prev>>
  /\ UNCHANGED <<config, currentOptions, joinBuilderJoins, cache, heap, now, lastBuilder,
                 builderLeft, nExec>>
  /\ UNCHANGED <<pagVars, auxVars>>

AfterBuild == \E e \in Execs : AfterBuildStep(e)

\* the record store rejects findAll / findAndCountAll
StoreRejectStep(e) ==
  /\ ex[e].pc = "findWait"
  /\ CatchBlock(e, ex[e], metrics, [name |-> "SequelizeDatabaseError"])
  /\ UNCHANGED <<config, currentOptions, joinBuilderJoins, cache, heap, now, lastBuilder,
                 builderLeft, nExec>>
  /\ UNCHANGED <<pagVars, auxVars>>

StoreReject == \E e \in Execs : StoreRejectStep(e)

\* lines 444-473 / 523-540: the record store resolves findAll / findAndCountAll
StoreResolveStep(e, count) ==
  LET executionTime == now - ex[e].startTime
      rows == [rowsFor |-> ex[e].build.options]
      rec  == [ex[e] EXCEPT !.executionTime = executionTime, !.rows = rows,
                            !.log = Append(@, "resolved")]
      m    == recordQueryExecution(metrics, config.enablePerformanceMonitoring,
                                   rec.monitorId, executionTime)
      perf == [executionTime |-> executionTime, queryCount |-> 1, cacheHit |-> FALSE]
      pag  == PaginationProcess(pbConfig, currentOptions.pagination)
  IN /\ ex[e].pc = "findWait"
     /\ IF rec.method = "findAndCountAll"
          THEN StoreEnvelope(e, rec, m, [data |-> rows, count |-> count, performance |-> perf])
        ELSE IF ~Has(currentOptions, "pagination")
          THEN StoreEnvelope(e, rec, m, [data |-> rows, performance |-> perf])
        ELSE IF ~pag.ok
          THEN CatchBlock(e, rec, m, pag.error) /\ UNCHANGED <<cache, heap>>
        ELSE /\ ex' = [ex EXCEPT ![e] = [rec EXCEPT !.pc = "countWait", !.page = pag.value,
                                                   !.log = Append(@, "count")]]
             /\ metrics' = m
             /\ UNCHANGED <<cache, heap, prev>>
     /\ UNCHANGED <<config, currentOptions, joinBuilderJoins, now, lastBuilder, builderLeft, nExec>>
     /\ UNCHANGED <<pagVars, auxVars>>

StoreResolve == \E e \in Execs : \E count \in Totals : StoreResolveStep(e, count)

\* the record store rejects count
CountRejectStep(e) ==
  /\ ex[e].pc = "countWait"
  /\ CatchBlock(e, ex[e], metrics, [name |-> "SequelizeDatabaseError"])
  /\ UNCHANGED <<config, currentOptions, joinBuilderJoins, cache, heap, now, lastBuilder,
                 builderLeft, nExec>>
  /\ UNCHANGED <<pagVars, auxVars>>

CountReject == \E e \in Execs : CountRejectStep(e)

\* lines 452-473: count resolves with total; the paginated envelope is built and cached
CountResolveStep(e, total) ==
  LET rec == ex[e] IN
  /\ rec.pc = "countWait"
  /\ StoreEnvelope(e, rec, metrics, buildResult(rec.rows, total, rec.page.page, rec.page.pageSize))
  /\ UNCHANGED <<config, currentOptions, joinBuilderJoins, now, lastBuilder, builderLeft, nExec>>
  /\ UNCHANGED <<pagVars, auxVars>>

CountResolve == \E e \in Execs : \E total \in Totals : CountResolveStep(e, total)

\* lines 475-485 / 542-552: the cache write has resolved
AfterSetStep(e) ==
  LET rec == ex[e]
      end == endMonitoring(metrics, config.enablePerformanceMonitoring, rec.monitorId, now)
  IN /\ rec.pc = "setWait"
     /\ metrics' = end.metrics
     /\ heap' = IF end.result # EmptyObj
                  THEN [heap EXCEPT ![rec.final] = Put(@, "performance", PerformanceOf(end.result))]
                  ELSE heap
     /\ ex' = [ex EXCEPT ![e] = [rec EXCEPT !.pc = "done", !.outcome = "returned",
                                           !.ret = rec.final]]
     /\ prev' = PrevAfter(e, rec, cache)
     /\ UNCHANGED <<config, currentOptions, joinBuilderJoins, cache, now, lastBuilder,
                    builderLeft, nExec>>
     /\ UNCHANGED <<pagVars, auxVars>>

AfterSet == \E e \in Execs : AfterSetStep(e)

Next ==
  \/ withPagination \/ withFilters \/ withSorting \/ withSortings \/ withJoins
  \/ Execute \/ ExecuteWithCount
  \/ AfterCache \/ AfterBuild \/ StoreReject \/ StoreResolve
  \/ CountReject \/ CountResolve \/ AfterSet
  \/ Tick

Spec == Init /\ [][Next]_vars

NextBuilders ==
  \/ withPagination \/ withFilters \/ withSorting \/ withSortings \/ withJoins

SpecBuilders == InitBuilders /\ [][NextBuilders]_vars

\* raw where clauses: { age: { [Op.gt]: 18 } }, { age: { [Op.lt]: 18 } } and
\* { status: 'active' }
InputWheres ==
  { [age |-> OpValue("gt", 18)], [age |-> OpValue("lt", 18)], [status |-> Str("active")] }

\* withWhere(where): assigns, no validation
withWhere ==
  \E where \in InputWheres :
    BuilderCall("withWhere", where, Returned(Put(currentOptions, "where", where)))

NextKeys == NextBuilders \/ withWhere

\* the builder methods alone, the specification before and after each call
\* being two specifications one orchestrator holds in turn
SpecKeys == InitBuilders /\ [][NextKeys]_vars

----
\* A stand-alone PaginationBuilder

PgConstructorArgs ==
  { EmptyObj,
    [defaultPageSize |-> 25, maxPageSize |-> 50],
    [enableOffset |-> FALSE] }

PgOptionsSet ==
  { Merge(Merge(p, s), Merge(f, l)) :
      p \in {EmptyObj, [page |-> 0], [page |-> 2]},
      s \in {EmptyObj, [pageSize |-> 0], [pageSize |-> 20], [pageSize |-> 60]},
      f \in {EmptyObj, [offset |-> 0], [offset |-> 40]},
      l \in {EmptyObj, [limit |-> 20]} }

InitPag ==
  /\ InitOrch /\ InitAux
  /\ ~config.enableCaching /\ ~config.enablePerformanceMonitoring
  /\ builderLeft = 0
  /\ pgConfig \in {PaginationBuilderConfig(c) : c \in PgConstructorArgs}
  /\ pgOptions = EmptyObj
  /\ pgValidation = EmptyObj
  /\ pgOut = EmptyObj
  /\ brIn = EmptyObj
  /\ brOut = EmptyObj

\* paginationBuilder.validate(o)
PgValidate ==
  \E o \in PgOptionsSet :
    /\ pgOptions' = o
    /\ pgValidation' = PaginationValidate(pgConfig, o)
    /\ pgOut' = EmptyObj
    /\ brIn' = EmptyObj
    /\ brOut' = EmptyObj
    /\ UNCHANGED <<orchVars, pgConfig, auxVars>>

\* paginationBuilder.process(o)
PgProcess ==
  \E o \in PgOptionsSet :
    /\ pgOptions' = o
    /\ pgOut' = PaginationProcess(pgConfig, o)
    /\ pgValidation' = EmptyObj
    /\ brIn' = EmptyObj
    /\ brOut' = EmptyObj
    /\ UNCHANGED <<orchVars, pgConfig, auxVars>>

\* paginationBuilder.buildResult(data, total, page, pageSize) with the page and
\* pageSize that process returned, as execute() calls it
PgBuildResult ==
  /\ pgOut # EmptyObj /\ pgOut.ok
  /\ \E total \in 0..MaxTotal :
       /\ brIn' = [total |-> total, page |-> pgOut.value.page,
                   pageSize |-> pgOut.value.pageSize]
       /\ brOut' = buildResult(<<>>, total, pgOut.value.page, pgOut.value.pageSize)
  /\ UNCHANGED <<orchVars, pgConfig, pgOptions, pgValidation, pgOut, auxVars>>

NextPag == PgValidate \/ PgProcess \/ PgBuildResult

SpecPag == InitPag /\ [][NextPag]_vars

\* arguments of setConfig(config)
PgSetConfigArgs ==
  { [maxPageSize |-> 5],
    [defaultPageSize |-> 200],
    [enableOffset |-> FALSE] }

\* a call that replaces the configuration; what was validated or processed
\* under the old one is forgotten
PgReconfigure(cfg) ==
  /\ pgConfig' = cfg
  /\ pgOptions' = EmptyObj
  /\ pgValidation' = EmptyObj
  /\ pgOut' = EmptyObj
  /\ brIn' = EmptyObj
  /\ brOut' = EmptyObj
  /\ UNCHANGED <<orchVars, auxVars>>

\* setConfig(config): this.config = { ...this.config, ...config }
PgSetConfig == \E c \in PgSetConfigArgs : PgReconfigure(Merge(pgConfig, c))

\* disable()
PgDisable == PgReconfigure([pgConfig EXCEPT !.defaultPageSize = 0])

\* enable(defaultPageSize = 10)
PgEnable ==
  \E defaultPageSize \in {DefaultPageSize, 25} :
    PgReconfigure([pgConfig EXCEPT !.defaultPageSize = defaultPageSize])

NextPagConfig == PgValidate \/ PgProcess \/ PgSetConfig \/ PgDisable \/ PgEnable

\* a stand-alone PaginationBuilder that is reconfigured between calls
SpecPagConfig == InitPag /\ [][NextPagConfig]_vars

----
\* CacheManager.getOrSet(key, factory) on the orchestrator's cache manager
\* (getCacheManager()), one action per stretch of code between two awaits

GosKey == <<"k">>

\* what a factory may resolve with: null, or one of two objects
FactoryValues == {Null, 1, 2}

GosInFlight(s) == gos.calls[s].pc \notin {"idle", "done"}

\* line 181: getOrSet is called; get reads the provider before it yields
GosCall(s) ==
  LET got == CacheManagerGet(config.enableCaching, cache, GosKey, now)
      overlap == \E r \in GosSlots \ {s} : GosInFlight(r)
  IN /\ ~GosInFlight(s)
     /\ gos.made < MaxGosCalls
     /\ cache' = got.cache
     /\ gos' = [gos EXCEPT
                  !.made = @ + 1,
                  !.calls = [r \in GosSlots |->
                               IF r = s
                                 THEN [IdleGos EXCEPT !.pc = "getWait", !.n = gos.made + 1,
                                                      !.callAt = now, !.value = got.value,
                                                      !.concurrent = overlap]
                               ELSE IF GosInFlight(r) THEN [@[r] EXCEPT !.concurrent = TRUE]
                               ELSE @[r]]]
     /\ UNCHANGED <<config, currentOptions, joinBuilderJoins, heap, metrics, ex, now,
                    lastBuilder, prev, builderLeft, nExec, providerFails, monitorings, lastOp, subBuilders>>
     /\ UNCHANGED pagVars

\* lines 182-183: a null value is a miss and the factory is invoked;
\* anything else is returned
GosAfterGet(s) ==
  LET c == gos.calls[s] IN
  /\ c.pc = "getWait"
  /\ gos' = [gos EXCEPT !.calls[s] =
               IF c.value = Null
                 THEN [c EXCEPT !.pc = "factoryWait", !.missed = TRUE, !.factory = @ + 1]
                 ELSE [c EXCEPT !.pc = "done", !.outcome = "returned", !.ret = c.value]]
  /\ UNCHANGED <<orchVars, pagVars, providerFails, monitorings, lastOp, subBuilders>>

\* line 184: the factory resolves with v; set writes the provider before it yields
GosFactoryResolve(s) ==
  \E v \in FactoryValues :
    /\ gos.calls[s].pc = "factoryWait"
    /\ cache' = CacheManagerSet(config.enableCaching, cache, GosKey, v, config.cacheTTL, now)
    /\ gos' = [gos EXCEPT !.calls[s] = [@ EXCEPT !.pc = "setWait", !.value = v, !.setAt = now],
                          !.lastWritten = IF config.enableCaching /\ ~providerFails THEN v ELSE @]
    /\ UNCHANGED <<config, currentOptions, joinBuilderJoins, heap, metrics, ex, now,
                   lastBuilder, prev, builderLeft, nExec, providerFails, monitorings, lastOp, subBuilders>>
    /\ UNCHANGED pagVars

\* the factory rejects: getOrSet rejects with the same error
GosFactoryReject(s) ==
  /\ gos.calls[s].pc = "factoryWait"
  /\ gos' = [gos EXCEPT !.calls[s] = [@ EXCEPT !.pc = "done", !.outcome = "raised"]]
  /\ UNCHANGED <<orchVars, pagVars, providerFails, monitorings, lastOp, subBuilders>>

\* line 186: set has resolved
GosAfterSet(s) ==
  /\ gos.calls[s].pc = "setWait"
  /\ gos' = [gos EXCEPT !.calls[s] = [@ EXCEPT !.pc = "done", !.outcome = "returned",
                                               !.ret = gos.calls[s].value]]
  /\ UNCHANGED <<orchVars, pagVars, providerFails, monitorings, lastOp, subBuilders>>

getOrSet ==
  \E s \in GosSlots :
    GosCall(s) \/ GosAfterGet(s) \/ GosFactoryResolve(s) \/ GosFactoryReject(s) \/ GosAfterSet(s)

InitGetOrSet ==
  /\ InitOrch /\ InitPagIdle /\ InitAux
  /\ ~config.enablePerformanceMonitoring
  /\ builderLeft = 0

NextGetOrSet == getOrSet \/ Tick

SpecGetOrSet == InitGetOrSet /\ [][NextGetOrSet]_vars

----
\* Direct calls on the orchestrator's cache manager (getCacheManager()) and on
\* its in-memory provider (getProvider())

OpKeys == {<<"a">>, <<"b">>}

FullKey(k) == <<KeyPrefix>> \o k

\* the call op(key) leaves the provider's map as c and settles with result,
\* or rejects
DirectOp(op, key, ttl, result, raised, c) ==
  /\ cache' = c
  /\ lastOp' = [op |-> op, key |-> key, ttl |-> ttl, result |-> result, raised |-> raised,
                before |-> cache, at |-> now]
  /\ UNCHANGED <<config, currentOptions, joinBuilderJoins, heap, metrics, ex, now,
                 lastBuilder, prev, builderLeft, nExec, providerFails, monitorings, gos, subBuilders>>
  /\ UNCHANGED pagVars

CmGet ==
  \E k \in OpKeys :
    LET g == CacheManagerGet(config.enableCaching, cache, k, now)
    IN DirectOp("cm.get", k, 0, g.value, g.raised, g.cache)

CmHas ==
  \E k \in OpKeys :
    LET g == CacheManagerHas(config.enableCaching, cache, k, now)
    IN DirectOp("cm.has", k, 0, g.value, FALSE, g.cache)

CmSet ==
  \E k \in OpKeys :
    DirectOp("cm.set", k, config.cacheTTL, Null, FALSE,
             CacheManagerSet(config.enableCaching, cache, k, 1, config.cacheTTL, now))

CmDel ==
  \E k \in OpKeys :
    DirectOp("cm.del", k, 0, Null, FALSE, CacheManagerDel(config.enableCaching, cache, k))

CmClear ==
  DirectOp("cm.clear", <<>>, 0, Null, FALSE, CacheManagerClear(config.enableCaching, cache))

CacheManagerCalls == CmGet \/ CmHas \/ CmSet \/ CmDel \/ CmClear

\* ttl arguments of MemoryCacheProvider.set: none (0) or one second
ProviderTtls == {0, 1}

McpGet ==
  \E k \in OpKeys :
    LET g == ProviderGet(cache, FullKey(k), now)
    IN ~providerFails /\ DirectOp("get", k, 0, g.value, FALSE, g.cache)

McpHas ==
  \E k \in OpKeys :
    LET g == ProviderHas(cache, FullKey(k), now)
    IN ~providerFails /\ DirectOp("has", k, 0, g.value, FALSE, g.cache)

McpSet ==
  \E k \in OpKeys, ttl \in ProviderTtls :
    /\ ~providerFails
    /\ DirectOp("set", k, ttl, Null, FALSE, ProviderSet(cache, FullKey(k), 1, ttl, now))

McpDel ==
  \E k \in OpKeys :
    ~providerFails /\ DirectOp("del", k, 0, Null, FALSE, ProviderDel(cache, FullKey(k)))

McpCleanup ==
  ~providerFails /\ DirectOp("cleanup", <<>>, 0, Null, FALSE, ProviderCleanup(cache, now))

ProviderCalls == McpGet \/ McpHas \/ McpSet \/ McpDel \/ McpCleanup

InitProvider ==
  /\ InitOrch /\ InitPagIdle /\ InitAux
  /\ ~config.enablePerformanceMonitoring
  /\ builderLeft = 0

NextProvider == ProviderCalls \/ CacheManagerCalls \/ Tick

SpecProvider == InitProvider /\ [][NextProvider]_vars

\* the orchestrator after getCacheManager().setProvider(p), p a provider whose
\* every call rejects
InitFail ==
  /\ InitOrch /\ InitPagIdle /\ InitAuxIdle
  /\ config.enableCaching
  /\ providerFails = TRUE
  /\ builderLeft = MaxBuilderCalls

NextFail == Next \/ CacheManagerCalls

SpecFail == InitFail /\ [][NextFail]_vars

----
\* reset() and the sub-builders reached with getFilterBuilder() and
\* getSortBuilder()

\* builder calls of a behaviour that also resets
MaxResetBuilderCalls == 2

\* variant: a clear() that leaves the joins in place
JoinBuilderClear_keep(joins) == joins

\* JoinBuilder.clear()
JoinBuilderClear(joins) == <<>>

\* FilterBuilder.clear()
FilterBuilderClear(filters) == <<>>

\* SortBuilder.clear()
SortBuilderClear(sorts) == <<>>

InputConditions ==
  { [field |-> "status", operator |-> "eq", value |-> Str("active")],
    [field |-> "deletedAt", operator |-> "is"],
    [operator |-> "eq", value |-> Str("active")] }

\* FilterBuilder.validateCondition: the code of the error raised, "" for none
FilterValidateCondition(c) ==
  IF ~Has(c, "field") THEN "INVALID_FILTER_FIELD"
  ELSE IF ~Has(c, "operator") THEN "INVALID_FILTER_OPERATOR"
  ELSE IF ~Has(c, "value") /\ c.operator \notin {"is", "isNot"} THEN "INVALID_FILTER_VALUE"
  ELSE ""

\* SortBuilder.validateCondition: the code of the error raised, "" for none
SortValidateCondition(c) ==
  IF ~Has(c, "column") THEN "INVALID_SORT_COLUMN"
  ELSE IF Has(c, "order") /\ c.order \notin {"ASC", "DESC"} THEN "INVALID_SORT_ORDER"
  ELSE IF Has(c, "nulls") /\ c.nulls \notin {"first", "last"} THEN "INVALID_SORT_NULLS"
  ELSE ""

\* a call on a sub-builder: it raises code, or leaves the sub-builders as sb
SubBuilderCall(method, input, code, sb) ==
  /\ builderLeft > 0
  /\ builderLeft' = builderLeft - 1
  /\ subBuilders' = IF code = "" THEN sb ELSE subBuilders
  /\ lastBuilder' = [method |-> method, raised |-> code # "", input |-> input,
                     error |-> IF code = "" THEN EmptyObj
                               ELSE [name |-> "ValidationError", code |-> code],
                     before |-> currentOptions]
  /\ UNCHANGED <<config, currentOptions, joinBuilderJoins, cache, heap, metrics, ex, now,
                 prev, nExec, providerFails, monitorings, gos, lastOp>>
  /\ UNCHANGED pagVars

\* getFilterBuilder().addFilter(condition)
addFilter ==
  \E c \in InputConditions :
    SubBuilderCall("addFilter", c, FilterValidateCondition(c),
                      [subBuilders EXCEPT !.filters = Append(@, c)])

\* getSortBuilder().addSort(condition)
addSort ==
  \E c \in InputSorts :
    SubBuilderCall("addSort", c, SortValidateCondition(c),
                      [subBuilders EXCEPT !.sorts = Append(@, c)])

\* AdvancedQueryBuilder.reset()
reset ==
  /\ currentOptions' = EmptyObj
  /\ joinBuilderJoins' = JoinBuilderClear(joinBuilderJoins)
  /\ subBuilders' = [subBuilders EXCEPT
                       !.filters = FilterBuilderClear(@),
                       !.sorts = SortBuilderClear(@),
                       !.resetAt = IF \E e \in Execs : InFlight(e) THEN -1 ELSE nExec]
  /\ lastBuilder' = [NoBuilder EXCEPT !.method = "reset", !.before = currentOptions]
  /\ prev' = NoPrev
  /\ ex' = [e \in Execs |-> [ex[e] EXCEPT !.clean = FALSE]]
  /\ UNCHANGED <<config, cache, heap, metrics, now, builderLeft, nExec,
                 providerFails, monitorings, gos, lastOp>>
  /\ UNCHANGED pagVars

\* one orchestrator without a cache, reused across queries
InitReset ==
  /\ InitOrch /\ InitPagIdle /\ InitAux
  /\ ~config.enableCaching /\ ~config.enablePerformanceMonitoring
  /\ builderLeft = MaxResetBuilderCalls

NextReset ==
  \/ withPagination \/ withFilters \/ withSorting \/ withSortings \/ withJoins
  \/ addFilter \/ addSort \/ reset
  \/ Execute \/ AfterBuild \/ StoreReject \/ StoreResolve \/ CountReject \/ CountResolve

SpecReset == InitReset /\ [][NextReset]_vars

----
\* A FilterBuilder used directly: pattern conditions and build()

LikeFamily == {"like", "notLike", "startsWith", "endsWith", "contains"}

\* conditions of the pattern operators, with caseSensitive absent, true or false
LikeConditions ==
  { Merge([field |-> "name", operator |-> op, value |-> Str("jo")], cs) :
      op \in LikeFamily,
      cs \in {EmptyObj, [caseSensitive |-> TRUE], [caseSensitive |-> FALSE]} }

\* addFilter(condition) with a pattern condition
addFilterLike ==
  \E c \in LikeConditions :
    SubBuilderCall("addFilter", c, FilterValidateCondition(c),
                   [subBuilders EXCEPT !.filters = Append(@, c)])

\* whereLike(field, value, caseSensitive = true)
whereLike ==
  \E caseSensitive \in BOOLEAN :
    LET c == [field |-> "name", operator |-> IF caseSensitive THEN "like" ELSE "iLike",
              value |-> Str("jo"), caseSensitive |-> caseSensitive]
    IN SubBuilderCall("whereLike", c, FilterValidateCondition(c),
                      [subBuilders EXCEPT !.filters = Append(@, c)])

\* whereNotLike(field, value, caseSensitive = true)
whereNotLike ==
  \E caseSensitive \in BOOLEAN :
    LET c == [field |-> "name", operator |-> IF caseSensitive THEN "notLike" ELSE "notILike",
              value |-> Str("jo"), caseSensitive |-> caseSensitive]
    IN SubBuilderCall("whereNotLike", c, FilterValidateCondition(c),
                      [subBuilders EXCEPT !.filters = Append(@, c)])

\* range conditions with one bare value, a one-element list and a two-element
\* list, and conditions whose operator is not in the operator table
OtherCondition(op, n) ==
  IF op \in {"between", "notBetween"}
    THEN [field |-> "age", operator |-> op,
          value |-> CASE n = 0 -> Num(18)
                      [] n = 1 -> Arr(<<Num(18)>>)
                      [] OTHER -> Arr(<<Num(18), Num(65)>>)]
    ELSE [field |-> "name", operator |-> op, value |-> Str("jo")]

\* addFilter(condition) with a range condition or an unknown operator
addFilterOther ==
  \E op \in {"between", "notBetween", "or", "matches"}, n \in 0..2 :
    LET c == OtherCondition(op, n)
    IN SubBuilderCall("addFilter", c, FilterValidateCondition(c),
                      [subBuilders EXCEPT !.filters = Append(@, c)])

\* FilterBuilder.build()
FilterBuilderBuild(filters) ==
  IF Len(filters) = 0 THEN [where |-> EmptyObj, errors |-> <<>>, raised |-> FALSE]
  ELSE FilterProcess(filters)

filterBuild ==
  /\ subBuilders' = [subBuilders EXCEPT
                       !.built = [from |-> subBuilders.filters,
                                  result |-> FilterBuilderBuild(subBuilders.filters)]]
  /\ UNCHANGED <<orchVars, pagVars, providerFails, monitorings, gos, lastOp>>

InitFilter == InitOrch /\ InitPagIdle /\ InitAux /\ builderLeft = MaxBuilderOnlyCalls

NextFilter == addFilterLike \/ addFilterOther \/ whereLike \/ whereNotLike \/ filterBuild

SpecFilter == InitFilter /\ [][NextFilter]_vars

----
\* The bulk operations of the sub-builders, called directly

\* items.forEach(item => add(item)), add validating and then pushing: the items
\* before the first invalid one are held when it raises; codes[i] is the code
\* of the error that validating items[i] raises, "" for none
BulkAdd(held, items, codes) ==
  LET invalid == {i \in DOMAIN items : codes[i] # ""}
      first   == CHOOSE i \in invalid : \A j \in invalid : i <= j
  IN IF invalid = {}
       THEN [code |-> "", held |-> held \o items]
       ELSE [code |-> codes[first], held |-> held \o SubSeq(items, 1, first - 1)]

InputConditionLists == { <<c1, c2>> : c1 \in InputConditions, c2 \in InputConditions }

InputJoinLists == InputJoins \cup { << [model |-> Str("Post")], [as |-> "posts"] >> }

\* a bulk call that raised an error of class name with code, or returned, leaving the sub-builders as sb and
\* the join builder as joins; lastBuilder.before keeps the three working sets
\* the call found
BulkCall(method, input, name, code, sb, joins) ==
  /\ builderLeft > 0
  /\ builderLeft' = builderLeft - 1
  /\ subBuilders' = sb
  /\ joinBuilderJoins' = joins
  /\ lastBuilder' = [method |-> method, raised |-> code # "", input |-> input,
                     error |-> IF code = "" THEN EmptyObj
                               ELSE [name |-> name, code |-> code],
                     before |-> [filters |-> subBuilders.filters, sorts |-> subBuilders.sorts,
                                 joins |-> joinBuilderJoins]]
  /\ UNCHANGED <<config, currentOptions, cache, heap, metrics, ex, now,
                 prev, nExec, providerFails, monitorings, gos, lastOp>>
  /\ UNCHANGED pagVars

\* getFilterBuilder().addFilters(conditions)
addFiltersBulk ==
  \E conditions \in InputConditionLists :
    LET r == BulkAdd(subBuilders.filters, conditions,
                     [i \in DOMAIN conditions |-> FilterValidateCondition(conditions[i])])
    IN BulkCall("addFilters", conditions, "ValidationError", r.code,
                [subBuilders EXCEPT !.filters = r.held], joinBuilderJoins)

\* getSortBuilder().addSorts(conditions)
addSortsBulk ==
  \E conditions \in InputSortLists :
    LET r == BulkAdd(subBuilders.sorts, conditions,
                     [i \in DOMAIN conditions |-> SortValidateCondition(conditions[i])])
    IN BulkCall("addSorts", conditions, "ValidationError", r.code,
                [subBuilders EXCEPT !.sorts = r.held], joinBuilderJoins)

\* getJoinBuilder().addJoins(joins)
addJoinsBulk ==
  \E joins \in InputJoinLists :
    LET r == addJoins(joinBuilderJoins, joins)
    IN BulkCall("addJoins", joins, "QueryError", IF r.ok THEN "" ELSE r.error.code,
                subBuilders, r.joins)

NextBulk == addFiltersBulk \/ addSortsBulk \/ addJoinsBulk

SpecBulk == InitFilter /\ [][NextBulk]_vars

----
\* Properties of execute() and executeWithCount()

StoreCallNames == {"findAll", "findAndCountAll", "count"}

\* positions of the record-store calls in the event log of one call
StoreCallsAt(log) == {i \in DOMAIN log : log[i] \in StoreCallNames}

Done(e) == ex[e].pc = "done"

\* C1: with caching enabled, an execute() that directly follows a successful
\* execute() of the same specification, before the cached entry has expired,
\* issues no record-store call at all.
C1_RepeatIssuesNoStoreCall ==
  \A e \in Execs :
    (ex[e].repeat /\ ex[e].method = "findAll") => StoreCallsAt(ex[e].log) = {}

\* a second execute() in a row, at the last millisecond of the entry's life, has returned
C1_Witness ==
  \E e \in Execs :
    /\ Done(e) /\ ex[e].repeat /\ ex[e].method = "findAll" /\ ex[e].outcome = "returned"
    /\ now = cache[<<KeyPrefix>> \o ex[e].cacheKey].expires

\* C2: in that scenario the envelope the second execute() returns has
\* performance.cacheHit = true.
C2_RepeatReportsCacheHit ==
  \A e \in Execs :
    (Done(e) /\ ex[e].repeat /\ ex[e].method = "findAll" /\ ex[e].outcome = "returned")
      => /\ Has(heap[ex[e].ret], "performance")
         /\ heap[ex[e].ret].performance.cacheHit = TRUE

\* C3: when execute() or executeWithCount() fails, the performance record the
\* call opened is no longer in the live map, and the caller gets one QueryError
\* whose code is ADVANCED_QUERY_ERROR for execute() and ADVANCED_QUERY_COUNT_ERROR
\* for executeWithCount(), carrying the name of the original cause.
C3_FailureEndsMonitoringAndWraps ==
  \A e \in Execs :
    (Done(e) /\ ex[e].outcome = "raised")
      => /\ ~Has(metrics, ex[e].monitorId)
         /\ ex[e].error.name = "QueryError"
         /\ ex[e].method = "findAll" => ex[e].error.code = "ADVANCED_QUERY_ERROR"
         /\ ex[e].method = "findAndCountAll" => ex[e].error.code = "ADVANCED_QUERY_COUNT_ERROR"
         /\ ex[e].cause # ""
         /\ ex[e].error.originalError = ex[e].cause
         /\ ex[e].ret = Null

\* a monitored executeWithCount() has failed on a rejection of the record store
C3_Witness ==
  \E e \in Execs :
    /\ Done(e) /\ ex[e].outcome = "raised" /\ ex[e].method = "findAndCountAll"
    /\ ex[e].monitorId # NoMonitor
    /\ ex[e].cause = "SequelizeDatabaseError"

\* C4: when compiling the held specification fails, the call fails and has
\* issued no record-store call.
C4_CompileFailureIssuesNoStoreCall ==
  \A e \in Execs :
    ex[e].compileFailed
      => /\ StoreCallsAt(ex[e].log) = {}
         /\ Done(e) /\ ex[e].outcome = "raised"

\* an execute() has failed on a page size the pagination builder rejects
C4_Witness ==
  \E e \in Execs :
    /\ ex[e].compileFailed /\ Done(e) /\ ex[e].method = "findAll"
    /\ ex[e].cause = "PaginationError"

\* C5: within one execute(), the cache lookup (caching enabled) comes before any
\* record-store call, and count is issued only after findAll has completed, and
\* only for a paginated specification.
C5_LookupThenFindAllThenCount ==
  \A e \in Execs :
    LET log == ex[e].log IN
    ex[e].method = "findAll" =>
      /\ \A i \in StoreCallsAt(log) :
           config.enableCaching => \E j \in 1..(i - 1) : log[j] = "cacheGet"
      /\ \A i \in DOMAIN log :
           log[i] = "count" =>
             /\ \E j \in 1..(i - 1) : \E k \in (j + 1)..(i - 1) :
                  log[j] = "findAll" /\ log[k] = "resolved"
             /\ ex[e].page # EmptyObj

\* a cached, paginated execute() has issued its count
C5_Witness ==
  \E e \in Execs :
    /\ config.enableCaching
    /\ ex[e].log = <<"cacheGet", "build", "findAll", "resolved", "count">>

----
\* Properties of the builder methods

\* C6: a builder method that raises a validation failure leaves the held
\* specification as it was before the call.
C6_RaisingBuilderLeavesOptions ==
  lastBuilder.raised =>
    /\ lastBuilder.error.name = "ValidationError"
    /\ currentOptions = lastBuilder.before

\* withSortings has raised on a specification that already holds something
C6_Witness ==
  /\ lastBuilder.raised /\ lastBuilder.method = "withSortings"
  /\ currentOptions # EmptyObj

PageBasedOnly(o) == hasPageBased(o) /\ ~hasOffsetBased(o)

OffsetBasedOnly(o) == hasOffsetBased(o) /\ ~hasPageBased(o)

\* C7: withPagination with offset-based fields, on a specification that holds
\* page-based pagination, raises a validation failure citing the
\* conflicting-mode rule.
C7_SecondModeRaises ==
  ( /\ lastBuilder.method = "withPagination"
    /\ OffsetBasedOnly(lastBuilder.input)
    /\ Has(lastBuilder.before, "pagination")
    /\ PageBasedOnly(lastBuilder.before.pagination) )
  => lastBuilder.raised

OutOfRange(o, max) ==
  \/ Has(o, "pageSize") /\ (o.pageSize < 1 \/ o.pageSize > max)
  \/ Has(o, "limit") /\ (o.limit < 1 \/ o.limit > max)

\* C8: withPagination raises a ValidationError when pageSize or limit is outside
\* [1, maxPageSize], and when page-based and offset-based fields are mixed.
C8_WithPaginationRejects ==
  ( /\ lastBuilder.method = "withPagination"
    /\ \/ OutOfRange(lastBuilder.input, config.maxPageSize)
       \/ hasPageBased(lastBuilder.input) /\ hasOffsetBased(lastBuilder.input) )
  => lastBuilder.raised /\ lastBuilder.error.name = "ValidationError"

----
\* Properties of PaginationBuilder

\* C9: validate reports a specification that mixes page-based and offset-based
\* fields invalid, and process raises PaginationError for it and returns no tuple.
C9_MixedIsRejected ==
  (hasPageBased(pgOptions) /\ hasOffsetBased(pgOptions)) =>
    /\ pgValidation # EmptyObj => ~pgValidation.isValid
    /\ pgOut # EmptyObj =>
         /\ ~pgOut.ok
         /\ ~Has(pgOut, "value")
         /\ pgOut.error.name = "PaginationError"

\* process has raised on a specification whose only fault is the mix
C9_Witness ==
  /\ pgOptions = [page |-> 2, limit |-> 20]
  /\ pgOut # EmptyObj /\ ~pgOut.ok

\* C10: buildResult computes totalPages = ceil(total / pageSize), hasNext =
\* page < totalPages and hasPrev = page > 1 (page 2, size 20, total 45 gives 3,
\* true, true); process({page: 2, pageSize: 20}) gives offset 20 and limit 20.
C10_BuildResultArithmetic ==
  /\ brOut # EmptyObj =>
       LET r == brOut.pagination IN
       /\ r.totalPages * brIn.pageSize >= brIn.total
       /\ (r.totalPages - 1) * brIn.pageSize < brIn.total
       /\ r.hasNext = (brIn.page < r.totalPages)
       /\ r.hasPrev = (brIn.page > 1)
       /\ r.page = brIn.page /\ r.pageSize = brIn.pageSize /\ r.total = brIn.total
       /\ brIn = [total |-> 45, page |-> 2, pageSize |-> 20]
            => r.totalPages = 3 /\ r.hasNext /\ r.hasPrev
  /\ (pgOptions = [page |-> 2, pageSize |-> 20] /\ pgOut # EmptyObj)
       => /\ pgOut.ok
          /\ pgOut.value.offset = 20 /\ pgOut.value.limit = 20

\* page 2 of size 20 processed, then the result built for 45 records
C10_Witness ==
  /\ pgOptions = [page |-> 2, pageSize |-> 20]
  /\ pgOut # EmptyObj /\ pgOut.ok
  /\ brOut # EmptyObj /\ brIn.total = 45
  /\ brOut.pagination.totalPages = 3

\* C11: with offset-based pagination enabled, for a valid specification with
\* offset-based fields and no page-based fields, process returns the supplied
\* limit whenever one was supplied (also when limit is given without offset),
\* the supplied offset, and defaultPageSize as limit only when none was supplied.
C11_OffsetFieldsUsedDirectly ==
  ( /\ pgOut # EmptyObj /\ pgOut.ok
    /\ pgConfig.enableOffset
    /\ OffsetBasedOnly(pgOptions) )
  => /\ Has(pgOptions, "limit") => pgOut.value.limit = pgOptions.limit
     /\ Has(pgOptions, "offset") => pgOut.value.offset = pgOptions.offset
     /\ ~Has(pgOptions, "limit") => pgOut.value.limit = pgConfig.defaultPageSize

----
\* Properties of CacheManager.getOrSet

GosDone(s) == gos.calls[s].pc = "done" /\ gos.calls[s].outcome = "returned"

\* C12: with the cache enabled, two getOrSet calls on the same initially
\* uncached key, one after the other, the second within the TTL of what the
\* first wrote, invoke the factory once in total and both return what it produced.
C12_SequentialFactoryOnce ==
  \A a, b \in GosSlots :
    LET first == gos.calls[a]
        second == gos.calls[b]
    IN ( /\ config.enableCaching /\ ~providerFails
         /\ first.n = 1 /\ second.n = 2
         /\ GosDone(a) /\ GosDone(b)
         /\ ~first.concurrent /\ ~second.concurrent
         /\ second.callAt <= first.setAt + config.cacheTTL * MsPerSec )
       => /\ first.factory + second.factory = 1
          /\ first.ret = first.value
          /\ second.ret = first.ret

\* C13: getOrSet gives no mutual exclusion: two overlapping calls on the same
\* uncached key may both miss, and then each invokes the factory; whatever the
\* interleaving, the entry in the cache is the one written by the last set.
C13_BothMissLastWriteWins ==
  (config.enableCaching /\ ~providerFails) =>
    /\ \A a, b \in GosSlots :
         ( /\ a # b
           /\ gos.calls[a].concurrent /\ gos.calls[b].concurrent
           /\ gos.calls[a].missed /\ gos.calls[b].missed )
         => gos.calls[a].factory = 1 /\ gos.calls[b].factory = 1
    /\ Has(cache, <<KeyPrefix>> \o GosKey)
         => cache[<<KeyPrefix>> \o GosKey].value = gos.lastWritten

\* two overlapping calls have both missed and both invoked the factory; the
\* call made first has set last, and its value is the one in the cache
C13_Witness ==
  \E a, b \in GosSlots :
    /\ a # b /\ config.enableCaching
    /\ gos.calls[a].n = 1 /\ gos.calls[b].n = 2
    /\ gos.calls[a].concurrent /\ gos.calls[b].concurrent
    /\ gos.calls[a].missed /\ gos.calls[b].missed
    /\ gos.calls[a].factory = 1 /\ gos.calls[b].factory = 1
    /\ GosDone(a) /\ GosDone(b)
    /\ gos.calls[a].value = 1 /\ gos.calls[b].value = 2
    /\ cache[<<KeyPrefix>> \o GosKey].value = 1

----
\* Properties of the cache manager and its provider

InLog(e, event) == \E i \in DOMAIN ex[e].log : ex[e].log[i] = event

\* C14: with a provider whose every call rejects, CacheManager's get, set, del,
\* has and clear settle with the miss value (null, false, nothing) and write
\* nothing, and execute() / executeWithCount() raise only for a compile failure
\* or a record-store failure and otherwise return the envelope built from what
\* the record store returned.
C14_FailingProviderNeverFailsQuery ==
  providerFails =>
    /\ cache = EmptyObj
    /\ lastOp.op \in {"cm.get", "cm.set", "cm.del", "cm.has", "cm.clear"} =>
         /\ ~lastOp.raised
         /\ lastOp.op = "cm.has" => lastOp.result = FALSE
         /\ lastOp.op # "cm.has" => lastOp.result = Null
    /\ \A e \in Execs :
         Done(e) =>
           /\ ex[e].outcome = "raised" =>
                \/ ex[e].compileFailed
                \/ ex[e].cause \in {"SequelizeDatabaseError", "PaginationError"}
           /\ ex[e].outcome = "returned" =>
                /\ InLog(e, "cacheGet") /\ InLog(e, "resolved")
                /\ heap[ex[e].ret].data = ex[e].rows

\* a paginated execute() has returned its envelope although the provider
\* rejected the lookup and the write; a direct get has settled as well
C14_Witness ==
  /\ providerFails /\ lastOp.op = "cm.get"
  /\ \E e \in Execs :
       /\ Done(e) /\ ex[e].outcome = "returned" /\ ex[e].method = "findAll"
       /\ InLog(e, "count")
       /\ Has(heap[ex[e].ret], "pagination")

\* the entries of c other than key are the entries of d other than key
SameElsewhere(c, d, key) ==
  /\ DOMAIN c \ {key} = DOMAIN d \ {key}
  /\ \A k \in DOMAIN c \ {key} : c[k] = d[k]

\* C15: on the in-memory provider, get(key) and has(key) at time t report an
\* entry exactly when it is held and t is not past its expiry; a read that finds
\* an entry whose expiry is earlier than t reports a miss and removes it;
\* set(key, v, ttl) at t stamps the expiry t + ttl * 1000 (the provider's
\* default ttl when none is given), so that the entry is reported up to that
\* time; no call touches another key's entry; cleanup() at t leaves exactly the
\* entries whose expiry is not earlier than t, unchanged.
C15_ProviderExpiry ==
  LET fk == FullKey(lastOp.key)
      b == lastOp.before
      t == lastOp.at
      miss == IF lastOp.op = "get" THEN lastOp.result = Null ELSE lastOp.result = FALSE
      hit == IF lastOp.op = "get" THEN lastOp.result = b[fk].value ELSE lastOp.result = TRUE
  IN /\ lastOp.op \in {"get", "has"} =>
          IF Has(b, fk) /\ b[fk].expires < t
            THEN miss /\ ~Has(cache, fk) /\ SameElsewhere(cache, b, fk)
            ELSE IF Has(b, fk) THEN hit /\ cache = b
            ELSE miss /\ cache = b
     /\ lastOp.op = "set" =>
          /\ Has(cache, fk)
          /\ cache[fk].expires =
               t + (IF lastOp.ttl = 0 THEN ProviderDefaultTTL ELSE lastOp.ttl) * MsPerSec
          /\ SameElsewhere(cache, b, fk)
     /\ lastOp.op = "del" => ~Has(cache, fk) /\ SameElsewhere(cache, b, fk)
     /\ lastOp.op = "cleanup" =>
          /\ DOMAIN cache = {k \in DOMAIN b : b[k].expires >= t}
          /\ \A k \in DOMAIN cache : cache[k] = b[k]

\* get(key) lands exactly on the expiry of an entry set one second earlier and
\* reports it, while the provider also holds another key's entry
C15_Witness ==
  LET fk == FullKey(lastOp.key)
  IN /\ lastOp.op = "get"
     /\ Has(lastOp.before, fk)
     /\ lastOp.before[fk].expires = lastOp.at
     /\ lastOp.at > 0
     /\ lastOp.result # Null
     /\ Cardinality(DOMAIN cache) = 2

----
\* Properties of the performance monitor

\* C16: the totalExecutionTime endMonitoring returns is the time elapsed since
\* startMonitoring: for an execution that went to the record store and
\* returned, the total time reported in the envelope covers the span from the
\* start of monitoring to its end, and so is at least the time the record store
\* took within that span.
C16_TotalIsElapsedTime ==
  \A e \in Execs :
    ( /\ Done(e) /\ ex[e].outcome = "returned" /\ InLog(e, "resolved")
      /\ ex[e].monitorId # NoMonitor )
    => /\ Has(heap[ex[e].ret], "performance")
       /\ heap[ex[e].ret].performance.executionTime >= ex[e].executionTime

----
\* Properties of reset() and of the compiled plan

\* the call in slot e is the first execution made after a reset() that found
\* no execution in flight, and no builder call or reset has followed its start
FirstSinceReset(e) ==
  /\ subBuilders.resetAt >= 0
  /\ nExec = subBuilders.resetAt + 1
  /\ ex[e].clean
  /\ ex[e].build # EmptyObj

\* C17: right after reset() the held specification is empty and the filter,
\* sort and join sub-builders hold no condition, whatever preceded; and the
\* plan the next execute() compiles is the plan a newly constructed
\* orchestrator compiles from the descriptors attached since the reset.
C17_ResetEmptiesBuilder ==
  /\ lastBuilder.method = "reset" =>
       /\ currentOptions = EmptyObj
       /\ joinBuilderJoins = <<>>
       /\ subBuilders.filters = <<>> /\ subBuilders.sorts = <<>>
  /\ \A e \in Execs :
       FirstSinceReset(e) =>
         ex[e].build.ok = buildQueryOptions(currentOptions, pbConfig, <<>>).ok
         /\ ( ex[e].build.ok =>
                ex[e].build.options = buildQueryOptions(currentOptions, pbConfig, <<>>).options )

\* joins were attached and compiled, the orchestrator was reset, joins were
\* attached again and the next execute() has returned
C17_Witness ==
  \E e \in Execs :
    /\ FirstSinceReset(e) /\ subBuilders.resetAt = 1
    /\ Done(e) /\ ex[e].outcome = "returned"
    /\ Has(currentOptions, "joins")
    /\ Len(ex[e].build.options.include) = Len(currentOptions.joins)

\* C18: every execution compiles its plan afresh from the held specification:
\* when the specification holds k joins, the plan an execution submits has
\* exactly k inclusion nodes, on the first execution and on every later one.
C18_PlanCompiledFresh ==
  \A e \in Execs :
    ( /\ ex[e].clean /\ ex[e].build # EmptyObj /\ ex[e].build.ok
      /\ Has(currentOptions, "joins") )
    => Len(ex[e].build.options.include) = Len(currentOptions.joins)

\* C19: when the held specification has several sort conditions, the plan an
\* execution compiles has one ordering instruction per condition, in the
\* sequence of the conditions: the order the sort processor compiles from the
\* whole list.
C19_OneOrderingPerCondition ==
  \A e \in Execs :
    ( /\ ex[e].clean /\ ex[e].build # EmptyObj /\ ex[e].build.ok
      /\ Has(currentOptions, "sorting") )
    => /\ Len(ex[e].build.options.order) = Len(currentOptions.sorting)
       /\ ex[e].build.options.order = SortProcess(currentOptions.sorting).order

----
\* Properties of the compiled filter predicates

\* the matching operators that ignore case
CaseInsensitiveOps == {"iLike", "notILike"}

\* C20: a condition whose operator is like, notLike, startsWith, endsWith or
\* contains compiles to a predicate that ignores case unless the condition
\* sets caseSensitive to true, and to one that respects case exactly when it
\* does.
C20_CaseSensitivityHonoured ==
  subBuilders.built # EmptyObj =>
    LET from == subBuilders.built.from
        result == subBuilders.built.result
    IN \A i \in DOMAIN from :
         from[i].operator \in LikeFamily =>
           /\ Len(result.errors) = 0
           /\ ( result.where.and[i].op \in CaseInsensitiveOps
                  <=> ~(Has(from[i], "caseSensitive") /\ from[i].caseSensitive) )

\* the last build() was called on conditions and position i holds a condition
\* of one of the operators ops
BuiltFrom(i, ops) ==
  /\ subBuilders.built # EmptyObj
  /\ i \in DOMAIN subBuilders.built.from
  /\ subBuilders.built.from[i].operator \in ops

\* C21: compiling a list that contains a condition whose operator is outside
\* the operator table makes FilterProcessor.process raise; it does not return a
\* result object.
C21_UnknownOperatorRaises ==
  \A i \in 1..MaxBuilderOnlyCalls :
    ( /\ subBuilders.built # EmptyObj
      /\ i \in DOMAIN subBuilders.built.from
      /\ subBuilders.built.from[i].operator \notin Operators )
    => subBuilders.built.result.raised

\* C22: a between or notBetween condition given one value v, bare or as the
\* list [v], compiles to the range [v, v], given [a, b] to the range [a, b],
\* in both cases without an error and in its place among the predicates.
C22_RangeOfOneValue ==
  \A i \in 1..MaxBuilderOnlyCalls :
    BuiltFrom(i, {"between", "notBetween"}) =>
      LET c == subBuilders.built.from[i]
          result == subBuilders.built.result
          first == IF IsArray(c.value) THEN c.value.v[1] ELSE c.value
          last == IF IsArray(c.value) THEN c.value.v[Len(c.value.v)] ELSE c.value
          range == result.where.and[i].value
          unknown == \E j \in DOMAIN subBuilders.built.from :
                       subBuilders.built.from[j].operator \notin Operators
      IN ~unknown =>
           /\ Len(result.errors) = 0
           /\ result.where.and[i].op = c.operator
           /\ IsArray(range) /\ Len(range.v) = 2
           /\ range.v[1].t = "number" /\ range.v[1].v = first.v
           /\ range.v[2].t = "number" /\ range.v[2].v = last.v

----
\* Properties of a reconfigured PaginationBuilder

\* C23: whatever the constructor, setConfig, enable and disable made of the
\* configuration, every tuple process returns has page >= 1, offset >= 0,
\* 1 <= pageSize <= maxPageSize and 1 <= limit <= maxPageSize.
C23_ProcessedTupleInBounds ==
  (pgOut # EmptyObj /\ pgOut.ok) =>
    /\ pgOut.value.page >= 1
    /\ pgOut.value.offset >= 0
    /\ 1 <= pgOut.value.pageSize /\ pgOut.value.pageSize <= pgConfig.maxPageSize
    /\ 1 <= pgOut.value.limit /\ pgOut.value.limit <= pgConfig.maxPageSize

----
\* Properties of the monitored executions

\* C26: once an execute() or executeWithCount() call has completed, by
\* returning a fresh result, by returning a cached envelope or by raising, the
\* live metrics map holds no record for it; when no execution is in flight the
\* live map is empty.
C26_LiveMapEmptyWhenIdle ==
  /\ \A e \in Execs : Done(e) => ~Has(metrics, ex[e].monitorId)
  /\ (\A e \in Execs : ~InFlight(e)) => metrics = EmptyObj

\* C29: with performance monitoring enabled, the queryCount in the envelope a
\* cache-miss execute() returns is the number of record-store calls that
\* execution issued: 1 without pagination, 2 (fetch and count) with it.
C29_QueryCountCountsStoreCalls ==
  \A e \in Execs :
    ( /\ Done(e) /\ ex[e].outcome = "returned" /\ ex[e].method = "findAll"
      /\ ex[e].monitorId # NoMonitor /\ InLog(e, "resolved") )
    => /\ Has(heap[ex[e].ret], "performance")
       /\ heap[ex[e].ret].performance.queryCount = Cardinality(StoreCallsAt(ex[e].log))

\* C30: a filter specification with search and a non-empty searchFields list
\* compiles to a predicate without errors, so that an execute() of a
\* specification holding only such filters compiles and reaches the record
\* store.
C30_SearchReachesRecordStore ==
  \A e \in Execs :
    ( /\ Done(e) /\ ex[e].clean /\ ex[e].build # EmptyObj
      /\ DOMAIN currentOptions = {"filters"}
      /\ Has(currentOptions.filters, "search") /\ Has(currentOptions.filters, "searchFields")
      /\ Len(currentOptions.filters.searchFields) > 0 )
    => /\ Len(FilterProcessFromOptions(currentOptions.filters).errors) = 0
       /\ ex[e].build.ok
       /\ StoreCallsAt(ex[e].log) # {}

----
\* Properties of the sub-builders' bulk operations

\* C25: when addFilters, addSorts or addJoins raises because an element of its
\* list is invalid, the builder holds what it held before the call: no element
\* of the list has been added.
C25_BulkAddAllOrNothing ==
  (lastBuilder.method \in {"addFilters", "addSorts", "addJoins"} /\ lastBuilder.raised) =>
    /\ subBuilders.filters = lastBuilder.before.filters
    /\ subBuilders.sorts = lastBuilder.before.sorts
    /\ joinBuilderJoins = lastBuilder.before.joins

----
\* Properties of the cache key

\* C28: two specifications held by one orchestrator that compile to different
\* plans have different cache keys (here: the specification before and the one
\* after a builder call, each compiled by an orchestrator that has compiled
\* nothing yet).
C28_DifferentPlansDifferentKeys ==
  (lastBuilder.method # "" /\ ~lastBuilder.raised) =>
    LET planA == buildQueryOptions(lastBuilder.before, pbConfig, <<>>)
        planB == buildQueryOptions(currentOptions, pbConfig, <<>>)
    IN (planA.ok /\ planB.ok /\ planA.options # planB.options) =>
         generateCacheKey(lastBuilder.before, "") # generateCacheKey(currentOptions, "")

----
\* PerformanceMonitor with several spans of monitoring open at once, as the
\* orchestrator opens them: one startMonitoring(context) per execute() or
\* executeWithCount(), with the context's method, model and requestId

MaxMonitorTicks == 2
MaxMonitorRecords == 2

MonitorMethods == {"findAll", "findAndCountAll"}

\* const monitorId = this.performanceMonitor.startMonitoring(context)
PmStart(s) ==
  \E method \in MonitorMethods :
    LET mon == startMonitoring(metrics, config.enablePerformanceMonitoring, method, now)
    IN /\ monitorings[s].pc = "idle"
       /\ metrics' = mon.metrics
       /\ monitorings' = [monitorings EXCEPT ![s] =
                            [@ EXCEPT !.pc = "running", !.method = method, !.id = mon.id]]

\* this.performanceMonitor.recordQueryExecution(monitorId, executionTime)
PmRecord(s) ==
  /\ monitorings[s].pc = "running"
  /\ monitorings[s].recorded < MaxMonitorRecords
  /\ metrics' = recordQueryExecution(metrics, config.enablePerformanceMonitoring,
                                     monitorings[s].id, 1)
  /\ monitorings' = [monitorings EXCEPT ![s].recorded = @ + 1]

\* const performanceMetrics = this.performanceMonitor.endMonitoring(monitorId)
PmEnd(s) ==
  LET mon == endMonitoring(metrics, config.enablePerformanceMonitoring, monitorings[s].id, now)
  IN /\ monitorings[s].pc = "running"
     /\ metrics' = mon.metrics
     /\ monitorings' = [monitorings EXCEPT ![s] = [@ EXCEPT !.pc = "ended",
                                                            !.result = mon.result]]

\* what a call on the monitor leaves alone
MonitorFrame ==
  /\ UNCHANGED <<config, currentOptions, joinBuilderJoins, cache, heap, ex, now,
                 lastBuilder, prev, builderLeft, nExec, providerFails, gos, lastOp, subBuilders>>
  /\ UNCHANGED pagVars

PmStartMonitoring == \E s \in MonitorSlots : PmStart(s) /\ MonitorFrame

PmRecordQueryExecution == \E s \in MonitorSlots : PmRecord(s) /\ MonitorFrame

PmEndMonitoring == \E s \in MonitorSlots : PmEnd(s) /\ MonitorFrame

\* a millisecond passes
PmTick ==
  /\ now < MaxMonitorTicks
  /\ now' = now + 1
  /\ UNCHANGED <<config, currentOptions, joinBuilderJoins, cache, heap, metrics, ex,
                 lastBuilder, prev, builderLeft, nExec>>
  /\ UNCHANGED <<pagVars, auxVars>>

InitMonitor == Init /\ config.enablePerformanceMonitoring

NextMonitor == PmStartMonitoring \/ PmRecordQueryExecution \/ PmEndMonitoring \/ PmTick

SpecMonitor == InitMonitor /\ [][NextMonitor]_vars

\* execution e has handed an envelope to the cache
StoredInCache(e) ==
  /\ config.enableCaching
  /\ ex[e].pc \in {"setWait", "done"}
  /\ ex[e].final # IdleExec.final

\* the key of execution e is the key of specification s, and the plan e sent
\* to the record store is the plan s compiles to (the inclusion nodes left
\* aside)
ComputedFrom(e, s) ==
  LET plan == buildQueryOptions(s, pbConfig, <<>>)
  IN /\ ex[e].cacheKey = generateCacheKey(s, Suffix(ex[e].method))
     /\ plan.ok
     /\ DOMAIN ex[e].build.options = DOMAIN plan.options
     /\ \A f \in DOMAIN plan.options \ {"include"} :
          ex[e].build.options[f] = plan.options[f]

\* C27: every envelope an execution stores in the cache under key K was
\* computed from the specification K fingerprints (the one the orchestrator
\* holds, or held before the one builder call made since the execution
\* started), even when that builder call came while the execution was
\* suspended on its cache lookup.
C27_CachedEnvelopeMatchesKey ==
  \A e \in Execs :
    StoredInCache(e) =>
      \/ ComputedFrom(e, currentOptions)
      \/ ComputedFrom(e, lastBuilder.before)

\* C24: spans of monitoring open at the same time on one PerformanceMonitor
\* have distinct handles and separate records: a running span has its record,
\* with exactly the queries recorded for it (starting another span never
\* resets it, ending another never removes it), and an ended span got its own
\* metrics back from endMonitoring, never null.
C24_ConcurrentSpansKeptApart ==
  \A s \in MonitorSlots :
    /\ monitorings[s].pc = "running" =>
         /\ Has(metrics, monitorings[s].id)
         /\ metrics[monitorings[s].id].queryCount = monitorings[s].recorded
         /\ \A t \in MonitorSlots \ {s} :
              monitorings[t].pc = "running" => monitorings[t].id # monitorings[s].id
    /\ monitorings[s].pc = "ended" =>
         /\ monitorings[s].result # EmptyObj
         /\ monitorings[s].result.queryCount = monitorings[s].recorded

====
